---- MODULE Spec2Model ----
(***************************************************************************)
(* The scraping-and-extraction pipeline of llm-rea-bot as a state machine: *)
(* crawlai.main (all-brokers mode) -> scrape_single_broker ->              *)
(* PropertyScraper.scrape -> PropertyScraper.process_listing ->            *)
(* save_properties_json / save_properties_to_db.                           *)
(*                                                                         *)
(* There is one flow of control.  Every awaited external call (results     *)
(* page fetch, detail fetch, extraction, POST) is two steps: the call is   *)
(* issued, and later it returns with an outcome the environment chooses.   *)
(* Texts the code inspects are sequences of one-character strings.         *)
(***************************************************************************)
EXTENDS Integers, Sequences, FiniteSets, TLC

\* ------------------------------------------------------------------ bounds

\* Largest number of listing nodes a results page holds.
MaxListings == 3

\* Largest value of scrape's limit parameter.
MaxLimit == 2

\* ------------------------------------------------------------------- texts

UpperAlpha ==
    <<"A", "B", "C", "D", "E", "F", "G", "H", "I", "J", "K", "L", "M",
      "N", "O", "P", "Q", "R", "S", "T", "U", "V", "W", "X", "Y", "Z">>

LowerAlpha ==
    <<"a", "b", "c", "d", "e", "f", "g", "h", "i", "j", "k", "l", "m",
      "n", "o", "p", "q", "r", "s", "t", "u", "v", "w", "x", "y", "z">>

\* str.lower()
Lower(s) ==
    LET LowerChar(c) ==
            IF \E k \in 1..Len(UpperAlpha) : UpperAlpha[k] = c
            THEN LowerAlpha[CHOOSE k \in 1..Len(UpperAlpha) : UpperAlpha[k] = c]
            ELSE c
    IN  [k \in 1..Len(s) |-> LowerChar(s[k])]

\* Python's  sub in s
Contains(s, sub) ==
    \E k \in 0..(Len(s) - Len(sub)) : SubSeq(s, k + 1, k + Len(sub)) = sub

RATE_LIMIT_SPACED == <<"r", "a", "t", "e", " ", "l", "i", "m", "i", "t">>

RATELIMIT == <<"r", "a", "t", "e", "l", "i", "m", "i", "t">>

\* Exception texts the crawler may raise with.
ErrRateLimitSpaced == <<"R", "a", "t", "e", " ", "L", "i", "m", "i", "t">>

ErrRateLimitHint ==
    <<"R", "a", "t", "e", "L", "i", "m", "i", "t", ":", " ", "t", "r", "y",
      " ", "a", "g", "a", "i", "n", " ", "i", "n", " ", "7", "s">>

ErrTimeout == <<"t", "i", "m", "e", "o", "u", "t">>

\* The texts an extraction call raises with.
ErrorTexts == {ErrRateLimitHint, ErrTimeout}

\* Messages of the failure markers process_listing builds itself.
MsgEmptyList ==
    <<"L", "L", "M", " ", "r", "e", "t", "u", "r", "n", "e", "d", " ",
      "e", "m", "p", "t", "y", " ", "l", "i", "s", "t">>

MsgJsonError ==
    <<"J", "S", "O", "N", " ", "p", "a", "r", "s", "i", "n", "g", " ",
      "e", "r", "r", "o", "r">>

MsgExtractionFailed ==
    <<"E", "x", "t", "r", "a", "c", "t", "i", "o", "n", " ",
      "f", "a", "i", "l", "e", "d">>

\* str(e) of the TypeError raised by item assignment on a non-mapping.
MsgTypeError == <<"T", "y", "p", "e", "E", "r", "r", "o", "r">>

\* str(e) of the ValueError urlparse raises ("Invalid IPv6 URL").
MsgValueError == <<"V", "a", "l", "u", "e", "E", "r", "r", "o", "r">>

\* str(e) of an exception raised while the scraper is set up.
MsgSetupError == <<"O", "S", "E", "r", "r", "o", "r">>

NoText == <<>>

\* ------------------------------------------------------- program constants

max_retries == 3

\* main, line 119: the seconds slept after a failed broker run
BrokerCooldown == 30

\* --------------------------------------------------------------- utilities

Min(x, y) == IF x <= y THEN x ELSE y

\* Python's  seq[:n]  for n >= 0
Take(seq, n) == SubSeq(seq, 1, Min(Len(seq), n))

\* ------------------------------------------------------------------ inputs

\* utilities/brokers.json: the configured brokers, in configuration order.
\* A domain and a url template are sequences of tokens.
brokers_config ==
    << [name |-> "pararius",
        domain |-> <<"www.pararius.com">>,
        url |-> <<"https://www.pararius.com/", "{area}", "/0-", "{max_price}">>,
        fetch_detail_pages |-> FALSE],
       [name |-> "funda",
        domain |-> <<"https://", "www.funda.nl">>,
        url |-> <<"https://www.funda.nl/huur/", "{area}">>,
        fetch_detail_pages |-> TRUE] >>

\* --max-price, as the token str(max_price)
max_price == "3000"

VARIABLES
    pc,                 \* position of the flow of control
    args_broker,        \* main: args.broker, "all" or the name of a broker
    b,                  \* main: index of the broker of the run
    limit,              \* scrape: the limit parameter
    broker,             \* the BrokerConfig object of the current run
    scraping_result,    \* scrape_single_broker: result (a ScrapingResult)
    scraping_results,   \* main: scraping_results
    listings_data,      \* scrape: listings_data (listing ids, document order)
    i,                  \* scrape: number of loop iterations completed
    listing,            \* scrape: listing_html / listing_url of the iteration
    linked_page_content,\* process_listing: "" or the detail page's html
    current_retry,      \* process_listing: current_retry
    result,             \* process_listing: result of the extraction call
    initial_result,     \* scrape: initial_result (outcome of the page fetch)
    property_data,      \* scrape: value process_listing returned
    properties,         \* scrape: properties
    snapshot,           \* the JSON snapshot file of the run
    j,                  \* save_properties_to_db: position in the batch
    returned,           \* value scrape returned to scrape_single_broker
    inflight,           \* external calls issued and not yet returned
    attempt_log,        \* outcomes of the extraction calls of the listing
    waits,              \* rate-limit sleeps taken for the listing
    detail_fetches,     \* detail fetches issued for the listing
    order,              \* iterations and inter-listing delays, as they occur
    calls,              \* results page fetches and file writes of the run
    artifacts,          \* failed_extraction_*.txt files written, as they occur
    posts,              \* batch positions POSTed, as they occur
    answers,            \* the POSTs of the run that returned: how many the
                        \* API accepted, how many failed
    cooldowns,          \* main: 30-second sleeps taken so far
    arg,                \* the argument of a call of a function of utils.py,
                        \* or the last request to the persistence API
    out,                \* what that call returned, or the API's response
    store               \* the property_listings collection, oldest first

vars ==
    <<pc, b, limit, broker, scraping_result, scraping_results, listings_data,
      i, listing, linked_page_content, current_retry, result, property_data,
      properties, snapshot, j, returned, inflight, attempt_log, waits, order,
      calls, posts, cooldowns, initial_result, detail_fetches, artifacts,
      args_broker, arg, out, store, answers>>

\* ------------------------------------------------------------ broker config

\* BrokerConfig.__init__
BrokerConfig(config) ==
    [name |-> config.name, domain |-> config.domain, url_template |-> config.url,
     fetch_detail_pages |-> config.fetch_detail_pages]

\* str.replace(old, new) on a token sequence
Replace(tokens, old, new) ==
    [k \in 1..Len(tokens) |-> IF tokens[k] = old THEN new ELSE tokens[k]]

\* scrape_single_broker: the {max_price} placeholder is substituted in the
\* caller's object.
SubstituteMaxPrice(br) ==
    IF \E k \in 1..Len(br.url_template) : br.url_template[k] = "{max_price}"
    THEN [br EXCEPT !.url_template = Replace(@, "{max_price}", max_price)]
    ELSE br

\* PropertyScraper.__init__: a domain without a scheme gets https://
NormalizeDomain(br) ==
    IF br.domain # <<>> /\ br.domain[1] \notin {"http://", "https://"}
    THEN [br EXCEPT !.domain = <<"https://">> \o @]
    ELSE br

\* ScrapingResult.__init__
ScrapingResult(broker_name) ==
    [broker_name |-> broker_name, success |-> FALSE, error_message |-> NoText,
     properties_found |-> 0, properties_saved |-> 0]

NoBroker ==
    [name |-> "", domain |-> <<>>, url_template |-> <<>>,
     fetch_detail_pages |-> FALSE]

\* ------------------------------------------------------------------ entries

\* What process_listing returns.  isdict: the value is a mapping (has .get);
\* stamped: it has an 'error' key; error: the value of that key; date and
\* url: what it holds under available_from and url (<<>>: no url).
Marker(message) ==
    [isdict |-> TRUE, stamped |-> TRUE, error |-> TRUE, message |-> message,
     date |-> "none", url |-> <<>>, id |-> 0]

Record(date, url) ==
    [isdict |-> TRUE, stamped |-> TRUE, error |-> FALSE, message |-> NoText,
     date |-> date, url |-> url, id |-> 0]

\* result.extracted_content itself, handed back as it is
RawContent(isdict) ==
    [isdict |-> isdict, stamped |-> FALSE, error |-> FALSE, message |-> NoText,
     date |-> "none", url |-> <<>>, id |-> 0]

NoEntry ==
    [isdict |-> FALSE, stamped |-> FALSE, error |-> FALSE, message |-> NoText,
     date |-> "absent", url |-> <<>>, id |-> 0]

\* The value process_listing returns for listing lid.  id is no key of the
\* Python value: it records the listing the value was computed for.
From(lid, entry) == [entry EXCEPT !.id = lid]

\* prop.get('error'), for a mapping
GetError(prop) == prop.stamped /\ prop.error

\* Python truth of a value process_listing returns: markers and stamped
\* records are non-empty dicts, raw content passed the truth test of line 151.
Truthy(entry) == entry # NoEntry

\* ------------------------------------------------------- external outcomes

\* Outcomes of the results page fetch: crawler.arun raises, or returns a
\* result with success, error_message and extracted_content ("none": None or
\* empty; "invalid": text json.loads rejects; "list": a JSON list of n nodes).
InitialResults ==
    [raised : {TRUE}, success : {FALSE}, text : {ErrRateLimitSpaced, ErrTimeout},
     content : {"none"}, n : {0}]
    \cup [raised : {FALSE}, success : {TRUE}, text : {NoText},
          content : {"none", "invalid"}, n : {0}]
    \cup [raised : {FALSE}, success : {TRUE}, text : {NoText},
          content : {"list"}, n : 0..MaxListings]
    \cup [raised : {FALSE}, success : {FALSE}, text : {ErrRateLimitSpaced, ErrTimeout},
          content : {"none", "list"}, n : {MaxListings}]

\* The fields of one listing node: html_content and the href of its anchor.
ListingHtmls == {"", "<li>"}

ListingUrls == {"", "/huis/1"}

\* An href that urlparse rejects: its host opens a bracket it never closes.
MalformedHref == "//[::1/"

\* The hrefs a results page may hold.
Hrefs == ListingUrls \cup {MalformedHref}

NoListing == [id |-> 0, html_content |-> "", listing_url |-> ""]

\* Outcomes of a detail page fetch.
DetailOutcomes == {"ok", "unsuccessful", "raised"}

\* Shapes of extracted_content.  "none": None or empty.  Text: not JSON, a
\* JSON object, an empty JSON array, a JSON array whose first element is an
\* object, a JSON array whose first element is no object, a JSON scalar.
\* Not text: a mapping ("dict") or anything else ("list").
TextContents ==
    {"text_invalid", "text_object", "text_empty_array", "text_array",
     "text_array_other", "text_scalar"}

PlainContents ==
    {"none", "text_invalid", "text_empty_array", "text_array_other",
     "text_scalar", "dict", "list"}

\* What the extracted object holds under available_from: a YYYY-MM-DD
\* string, or a number.
Dates == {"iso", "number"}

\* The url the extractor puts into the object it returns.
ExtractorUrl == <<"https://", "www.example.com", "/made-up">>

\* Outcomes of one extraction call.  date and url: available_from and url of
\* the object, or of the first element of the array (<<>>: no url); second:
\* available_from of the array's second element ("none": the array has one
\* element only).
ExtractionOutcomes ==
    [raised : {TRUE}, text : ErrorTexts, success : {FALSE}, content : {"none"},
     date : {"none"}, url : {<<>>}, second : {"none"}]
    \cup [raised : {FALSE}, text : {NoText}, success : {TRUE},
          content : PlainContents, date : {"none"}, url : {<<>>},
          second : {"none"}]
    \cup [raised : {FALSE}, text : {NoText}, success : {TRUE},
          content : {"text_object"}, date : Dates, url : {ExtractorUrl},
          second : {"none"}]
    \cup [raised : {FALSE}, text : {NoText}, success : {TRUE},
          content : {"text_object"}, date : {"iso"}, url : {<<>>},
          second : {"none"}]
    \cup [raised : {FALSE}, text : {NoText}, success : {TRUE, FALSE},
          content : {"text_array"}, date : {"iso"}, url : {ExtractorUrl},
          second : {"none", "number"}]
    \cup [raised : {FALSE}, text : {NoText}, success : {FALSE},
          content : {"none"}, date : {"none"}, url : {<<>>}, second : {"none"}]

NoResult ==
    [raised |-> FALSE, text |-> NoText, success |-> FALSE, content |-> "none",
     date |-> "none", url |-> <<>>, second |-> "none"]

NoInitialResult ==
    [raised |-> FALSE, success |-> FALSE, text |-> NoText, content |-> "none",
     n |-> 0]

\* No POST of the run has returned.
NoAnswers == [accepted |-> 0, failed |-> 0]

\* Outcomes of a POST to the persistence API.
PostOutcomes == {"2xx", "non2xx", "raised"}

\* ------------------------------------------------------------ the code's tests

\* A branch test without the check of initial_result.success.
InitialBranchIgnoringSuccess(r) ==
    IF r.raised THEN "return_empty"
    ELSE IF r.content = "none" THEN "return_empty"
    ELSE IF r.content = "invalid" THEN "error"
    ELSE IF r.n = 0 THEN "debug_html"
    ELSE "process"

\* scrape, lines 212-240: what follows the results page fetch.
InitialBranch(r) ==
    IF r.raised THEN "return_empty"
    ELSE IF ~r.success THEN "return_empty"
    ELSE IF r.content = "none" THEN "return_empty"
    ELSE IF r.content = "invalid" THEN "error"
    ELSE IF r.n = 0 THEN "debug_html"
    ELSE "process"

\* A count that does not truncate to the limit.
listing_count_untruncated(n, lim) == n

\* scrape, line 245
listing_count(n, lim) == Min(n, lim)

\* scrape, line 247: listings_data[:listing_count]
ListingsToProcess(data, lim) == Take(data, listing_count(Len(data), lim))

\* scrape, line 251: a delay precedes every iteration but the first
DelayBefore(idx) == idx > 0

\* A test that takes every error for a rate-limit error.
AnyErrorIsRateLimit(error_str) == TRUE

\* process_listing, line 137, on the lowered text
IsRateLimitError(error_str) ==
    Contains(error_str, RATE_LIMIT_SPACED) \/ Contains(error_str, RATELIMIT)

\* A retry test that lets the counter reach the bound.
BelowMaxRetriesInclusive(retry) == retry <= max_retries

\* process_listing, lines 126 and 141:  current_retry < max_retries
BelowMaxRetries(retry) == retry < max_retries

\* An element choice that takes the array's last element.
LastElement(r) == IF r.second # "none" THEN r.second ELSE r.date

\* process_listing, line 159:  property_data[0]
FirstElement(r) == r.date

\* The tokens clean_url removes wherever they are, and those it strips
\* from both ends.
AngleBrackets == {"<", ">"}

Quotes == {"\"", "'"}

Whitespace == {" "}

\* str.strip(chars) on a token sequence
Strip(url, chars) ==
    LET keep == {k \in 1..Len(url) : url[k] \notin chars} IN
    IF keep = {} THEN <<>>
    ELSE SubSeq(url, CHOOSE k \in keep : \A m \in keep : k <= m,
                     CHOOSE k \in keep : \A m \in keep : k >= m)

\* re.search(r'\[(.*?)\]\((.*?)\)', url): the positions <<a, b, c>> of the
\* leftmost match  [ ... ]( ... )  with the shortest groups.
MarkdownMatches(url) ==
    {m \in (1..Len(url)) \X (1..Len(url)) \X (1..Len(url)) :
        /\ m[1] < m[2] /\ m[2] + 1 < m[3]
        /\ url[m[1]] = "[" /\ url[m[2]] = "]" /\ url[m[2] + 1] = "("
        /\ url[m[3]] = ")"}

MarkdownMatch(url) ==
    CHOOSE m \in MarkdownMatches(url) :
        \A o \in MarkdownMatches(url) :
            \/ m[1] < o[1]
            \/ m[1] = o[1] /\ m[2] < o[2]
            \/ m[1] = o[1] /\ m[2] = o[2] /\ m[3] <= o[3]

\* utils.clean_url, lines 11-30
clean_url(url) ==
    IF url = <<>> THEN <<>>
    ELSE LET unbracketed == SelectSeq(url, LAMBDA t : t \notin AngleBrackets)
             stripped == Strip(Strip(unbracketed, Quotes), Whitespace)
         IN IF MarkdownMatches(stripped) # {}
            THEN LET m == MarkdownMatch(stripped)
                 IN SubSeq(stripped, m[2] + 2, m[3] - 1)
            ELSE stripped

\* urlparse(url).netloc is not empty: the url names its host.
HasNetloc(url) == Len(url) >= 2 /\ url[1] \in {"http://", "https://", "//"}

\* urljoin(base, url) for a url without a host: the scheme and host of the
\* base, then the url.
urljoin(base, url) == IF HasNetloc(base) THEN SubSeq(base, 1, 2) \o url ELSE url

\* scraper.ensure_full_url, lines 15-25
ensure_full_url(base_url, url) ==
    IF url = <<>> THEN <<>>
    ELSE IF ~HasNetloc(url) THEN urljoin(base_url, url)
    ELSE url

\* A url choice that keeps the extractor's url when it gave one.
KeepExtractorUrl(domain, listing_url, own) ==
    IF own # <<>> THEN own
    ELSE IF listing_url # "" THEN clean_url(ensure_full_url(domain, <<listing_url>>))
    ELSE own

\* process_listing, lines 164-168: the record's url, given the discovered
\* listing_url and the url the extracted object came with.
RecordUrl(domain, listing_url, own) ==
    IF listing_url # ""
    THEN clean_url(ensure_full_url(domain, <<listing_url>>))
    ELSE own

\* process_listing, lines 150-184: the value returned for an extraction
\* result.  Item assignment on a value that is no mapping raises TypeError,
\* which the outer handler (185-187) turns into a marker.
InterpretResult(r) ==
    IF r.success /\ r.content # "none"
    THEN IF r.content \in TextContents
         THEN CASE r.content = "text_invalid" -> Marker(MsgJsonError)
                [] r.content = "text_empty_array" -> Marker(MsgEmptyList)
                [] r.content = "text_scalar" -> Marker(MsgTypeError)
                [] r.content = "text_array_other" -> Marker(MsgTypeError)
                [] r.content = "text_array" ->
                     Record(FirstElement(r),
                            RecordUrl(broker.domain, listing.listing_url, r.url))
                [] OTHER ->
                     Record(r.date,
                            RecordUrl(broker.domain, listing.listing_url, r.url))
         ELSE RawContent(r.content = "dict")
    ELSE Marker(MsgExtractionFailed)

\* An artifact that holds the text handed to the extraction, not its answer.
ArtifactOfMarkdown(r) == "markdown"

\* process_listing, lines 176-178: the failed extraction's text is written
\* to failed_extraction_*.txt (the content shape stands for the text).
ArtifactContent(r) == r.content

\* save_properties_json: what json.dump writes
SnapshotContent(props) == props

NoSnapshot == [written |-> FALSE, content |-> <<>>]

\* A snapshot error that is logged, after which the records are POSTed.
AfterSnapshotErrorGoesOn == "db_loop"

\* scrape, lines 289-294: an exception of save_properties_json ends scrape
\* in its handler, before save_properties_to_db is called.
AfterSnapshotError == "scrape_return"

\* clean_property_data raises: clean_date hands a non-string to strptime
CleanRaises(prop) == prop.date = "number"

\* save_properties_to_db, line 208
SkippedByDb(prop) == GetError(prop)

\* A count of the records the persistence API accepted.
SavedCountAccepted(props) ==
    answers.accepted

\* scrape_single_broker, line 50
SavedCount(props) == Cardinality({k \in 1..Len(props) : ~GetError(props[k])})

\* A run that counts as a success only when it found something.
SucceededIfAnyFound(props) == props # <<>>

\* scrape_single_broker, line 48: scrape has returned
RunSucceeded(props) == TRUE

\* A loop that skips no listing.
EmptyListingHtmlNever(listing_html) == FALSE

\* scrape, lines 260-262: not listing_html
EmptyListingHtml(listing_html) == listing_html = ""

\* A cooldown taken after every run.
CooldownAfterAnyRun(res) == TRUE

\* main, line 117
CooldownAfter(res) == ~res.success

\* The await of an external call: control resumes when the call has returned.
CallIssued(set, c) == set \cup {c}

\* A call left outstanding: control goes on without its completion.
CallNotAwaited(set, c) == set

CallReturned(set, c) == set \ {c}

NoCalls ==
    [main |-> 0, snapshot |-> 0, debug_html |-> 0, failed_extraction |-> 0]

\* process_listing, line 97: listing_html + "\n\n" + linked_page_content
combined_html == <<listing.html_content, linked_page_content>>

\* The external call the flow of control is suspended on; content: what an
\* extraction call is given to extract from.
CurrentCall(kind) ==
    [broker |-> b, call |-> kind,
     listing |-> IF kind \in {"main", "post"} THEN 0 ELSE i + 1,
     content |-> IF kind = "extract" THEN combined_html ELSE <<>>]

\* process_listing, lines 88-94: what the detail fetch leaves in
\* linked_page_content.
LinkedPageContent(o) == IF o = "ok" THEN "<html>" ELSE ""

\* A detail fetch whose exception ends the processing of the listing.
DetailErrorEndsListing(o) == IF o = "raised" THEN "listing_done" ELSE "retry_loop"

\* process_listing, lines 86-97: whatever the detail fetch did, the
\* extraction is next.
AfterDetailFetch(o) == "retry_loop"

\* ------------------------------------------------------------------ utils.py

Digits == {"0", "1", "2", "3", "4", "5", "6", "7", "8", "9"}

DigitValue(c) ==
    CASE c = "0" -> 0 [] c = "1" -> 1 [] c = "2" -> 2 [] c = "3" -> 3
      [] c = "4" -> 4 [] c = "5" -> 5 [] c = "6" -> 6 [] c = "7" -> 7
      [] c = "8" -> 8 [] c = "9" -> 9

\* int() of a text of decimal digits
RECURSIVE NumberValue(_)
NumberValue(s) ==
    IF s = <<>> THEN 0
    ELSE 10 * NumberValue(SubSeq(s, 1, Len(s) - 1)) + DigitValue(s[Len(s)])

\* The position after the longest run of digits of s that starts at p
\* (p itself when s has no digit there): what a greedy \d* consumes.
RECURSIVE DigitsEnd(_, _)
DigitsEnd(s, p) ==
    IF p <= Len(s) /\ s[p] \in Digits THEN DigitsEnd(s, p + 1) ELSE p

RECURSIVE StripTrailingZeros(_)
StripTrailingZeros(s) ==
    IF s # <<>> /\ s[Len(s)] = "0"
    THEN StripTrailingZeros(SubSeq(s, 1, Len(s) - 1))
    ELSE s

\* A number of seconds: its whole part and the digits of its fraction,
\* so that 7, 7.0 and 07.00 are one value.
Seconds(whole, frac) == [whole |-> whole, frac |-> StripTrailingZeros(frac)]

\* A conversion that drops the fraction.
FloatTruncated(group) ==
    Seconds(NumberValue(SubSeq(group, 1, DigitsEnd(group, 1) - 1)), <<>>)

\* float() of a text matched by  \d+\.?\d*
Float(group) ==
    LET dot == DigitsEnd(group, 1)
    IN  Seconds(NumberValue(SubSeq(group, 1, dot - 1)),
                SubSeq(group, dot + 1, Len(group)))

TRY_AGAIN_IN ==
    <<"t", "r", "y", " ", "a", "g", "a", "i", "n", " ", "i", "n", " ">>

\* parse_rate_limit_error, line 103: the position after the text that
\* (\d+\.?\d*)  matches from q.  Each part is greedy; giving characters back
\* never lets the "s" match where the greedy choice does not.
GroupEnd(s, q) ==
    LET e == DigitsEnd(s, q)
    IN  IF e <= Len(s) /\ s[e] = "." THEN DigitsEnd(s, e + 1) ELSE e

\* parse_rate_limit_error, line 103: the pattern matches s from position p.
PatternMatchesAt(s, p) ==
    LET q == p + Len(TRY_AGAIN_IN)
    IN  /\ q - 1 <= Len(s)
        /\ SubSeq(s, p, q - 1) = TRY_AGAIN_IN
        /\ DigitsEnd(s, q) > q
        /\ GroupEnd(s, q) <= Len(s)
        /\ s[GroupEnd(s, q)] = "s"

\* parse_rate_limit_error, line 103: re.search reports the leftmost match;
\* the result is the text of group 1, or <<>> for no match.
wait_time_match(s) ==
    LET starts == {p \in 1..Len(s) : PatternMatchesAt(s, p)}
    IN  IF starts = {} THEN <<>>
        ELSE LET p == CHOOSE x \in starts : \A y \in starts : x <= y
                 q == p + Len(TRY_AGAIN_IN)
             IN  SubSeq(s, q, GroupEnd(s, q) - 1)

\* parse_rate_limit_error, line 104: the wait when the text names none
DefaultWait == 30

\* utils.py, lines 101-104
parse_rate_limit_error(error_str) ==
    LET group == wait_time_match(Lower(error_str))
    IN  IF group # <<>> THEN Float(group) ELSE Seconds(DefaultWait, <<>>)

\* ------------------------------------------------- values of extracted fields

\* What a field of an extracted mapping may hold: a JSON value, or nothing
\* at all when the mapping lacks the key.
Missing == [type |-> "missing"]

Null == [type |-> "null"]

StrValue(text) == [type |-> "str", text |-> text]

IntValue(n) == [type |-> "int", value |-> n]

\* A float, by its whole part and the digits str() prints after the point.
FloatValue(whole, frac) == [type |-> "float", whole |-> whole, frac |-> frac]

BoolValue(v) == [type |-> "bool", truth |-> v]

ListValue(items) == [type |-> "list", items |-> items]

\* A nested object, by its keys and its values in order.
DictValue(keys, items) == [type |-> "dict", keys |-> keys, items |-> items]

\* data.get(key) of a mapping that lacks the key
Get(v) == IF v.type = "missing" THEN Null ELSE v

\* data.get(key, "") of a mapping that lacks the key
GetOrEmpty(v) == IF v.type = "missing" THEN StrValue(<<>>) ELSE v

\* Python's truth value, as  if not x  tests it
IsTrue(v) ==
    CASE v.type = "null" -> FALSE
      [] v.type = "str" -> v.text # <<>>
      [] v.type = "int" -> v.value # 0
      [] v.type = "float" -> v.whole # 0 \/ StripTrailingZeros(v.frac) # <<>>
      [] v.type = "bool" -> v.truth
      [] v.type = "list" -> v.items # <<>>
      [] v.type = "dict" -> v.items # <<>>

\* str() of a natural number
RECURSIVE ToDigits(_)
ToDigits(n) ==
    IF n < 10 THEN <<CHOOSE c \in Digits : DigitValue(c) = n>>
    ELSE ToDigits(n \div 10) \o ToDigits(n % 10)

\* repr() of a value, as str() of a list or a dict prints its elements
RECURSIVE Repr(_)
RECURSIVE ReprItems(_)
RECURSIVE ReprPairs(_, _)
Repr(v) ==
    CASE v.type = "null" -> <<"N", "o", "n", "e">>
      [] v.type = "str" -> <<"'">> \o v.text \o <<"'">>
      [] v.type = "int" -> ToDigits(v.value)
      [] v.type = "float" -> ToDigits(v.whole) \o <<".">> \o v.frac
      [] v.type = "bool" -> IF v.truth THEN <<"T", "r", "u", "e">>
                            ELSE <<"F", "a", "l", "s", "e">>
      [] v.type = "list" -> <<"[">> \o ReprItems(v.items) \o <<"]">>
      [] v.type = "dict" -> <<"{">> \o ReprPairs(v.keys, v.items) \o <<"}">>

ReprItems(items) ==
    IF items = <<>> THEN <<>>
    ELSE IF Len(items) = 1 THEN Repr(items[1])
    ELSE Repr(items[1]) \o <<",", " ">> \o ReprItems(Tail(items))

ReprPairs(keys, items) ==
    IF items = <<>> THEN <<>>
    ELSE LET pair == <<"'">> \o keys[1] \o <<"'", ":", " ">> \o Repr(items[1])
         IN  IF Len(items) = 1 THEN pair
             ELSE pair \o <<",", " ">> \o ReprPairs(Tail(keys), Tail(items))

\* str() of a value
Str(v) == IF v.type = "str" THEN v.text ELSE Repr(v)

\* A scan that takes every digit for a run of its own.
RECURSIVE FindAllSingleDigits(_)
FindAllSingleDigits(s) ==
    IF s = <<>> THEN <<>>
    ELSE IF s[1] \in Digits
    THEN <<SubSeq(s, 1, 1)>> \o FindAllSingleDigits(Tail(s))
    ELSE FindAllSingleDigits(Tail(s))

\* re.findall(r'\d+', s): the runs of digits of s, each as long as it can
\* be, from left to right
RECURSIVE FindAllDigitRuns(_)
FindAllDigitRuns(s) ==
    IF s = <<>> THEN <<>>
    ELSE IF s[1] \in Digits
    THEN LET e == DigitsEnd(s, 1)
         IN  <<SubSeq(s, 1, e - 1)>> \o FindAllDigitRuns(SubSeq(s, e, Len(s)))
    ELSE FindAllDigitRuns(Tail(s))

\* clean_property_data, lines 136-141
clean_price(price) ==
    IF ~IsTrue(price) THEN <<>>
    ELSE LET numbers == FindAllDigitRuns(Str(price))
         IN  IF numbers # <<>> THEN numbers[1] ELSE <<>>

\* clean_property_data, lines 143-148
clean_area(area) ==
    IF ~IsTrue(area) THEN <<>>
    ELSE LET numbers == FindAllDigitRuns(Str(area))
         IN  IF numbers # <<>> THEN numbers[1] ELSE <<>>

\* clean_property_data, lines 150-155
clean_bedrooms(bedrooms) ==
    IF ~IsTrue(bedrooms) THEN <<>>
    ELSE LET numbers == FindAllDigitRuns(Str(bedrooms))
         IN  IF numbers # <<>> THEN numbers[1] ELSE <<>>

\* str.upper()
Upper(s) ==
    LET UpperChar(c) ==
            IF \E k \in 1..Len(LowerAlpha) : LowerAlpha[k] = c
            THEN UpperAlpha[CHOOSE k \in 1..Len(LowerAlpha) : LowerAlpha[k] = c]
            ELSE c
    IN  [k \in 1..Len(s) |-> UpperChar(s[k])]

\* What a function of utils.py does with its argument: it returns a value,
\* or an exception leaves it.
Returned(value) == [raised |-> FALSE, error |-> "", value |-> value]

Raised(error) == [raised |-> TRUE, error |-> error, value |-> <<>>]

\* clean_energy_label, line 118
valid_labels ==
    { <<"A", "+", "+">>, <<"A", "+">>, <<"A">>, <<"B">>, <<"C">>, <<"D">>,
      <<"E">>, <<"F">>, <<"G">> }

\* A label cleaner that does not trim.
clean_energy_label_untrimmed(label) ==
    IF ~IsTrue(label) THEN <<>>
    ELSE LET cleaned == Upper(Str(label))
         IN  IF cleaned \in valid_labels THEN cleaned ELSE <<>>

\* utils.py, lines 106-119
clean_energy_label(label) ==
    IF ~IsTrue(label) THEN <<>>
    ELSE LET cleaned == Strip(Upper(Str(label)), Whitespace)
         IN  IF cleaned \in valid_labels THEN cleaned ELSE <<>>

\* clean_property_data, lines 157-163
clean_boolean(value) ==
    IF value.type = "bool"
    THEN Lower(Str(value))
    ELSE IF value.type = "str"
    THEN IF Lower(value.text)
              \in {<<"t", "r", "u", "e">>, <<"y", "e", "s">>, <<"1">>, <<"y">>}
         THEN <<"t", "r", "u", "e">>
         ELSE <<"f", "a", "l", "s", "e">>
    ELSE <<"f", "a", "l", "s", "e">>

\* clean_property_data, lines 165-169
clean_status(status) ==
    LET DefaultStatus == <<"a", "v", "a", "i", "l", "a", "b", "l", "e">>
        valid_statuses ==
            { DefaultStatus, <<"r", "e", "n", "t", "e", "d">>,
              <<"o", "p", "t", "i", "o", "n">> }
        lowered == IF IsTrue(status) THEN Lower(Str(status)) ELSE DefaultStatus
    IN  IF lowered \in valid_statuses THEN lowered ELSE DefaultStatus

\* The texts  %m  accepts: 1[0-2], 0[1-9] or [1-9]
IsMonthText(m) ==
    \/ Len(m) = 1 /\ m[1] \in Digits \ {"0"}
    \/ Len(m) = 2 /\ m[1] = "0" /\ m[2] \in Digits \ {"0"}
    \/ Len(m) = 2 /\ m[1] = "1" /\ m[2] \in {"0", "1", "2"}

\* The texts  %d  accepts: 3[01], [12]\d, 0[1-9], [1-9] or a space and [1-9]
IsDayText(day) ==
    \/ Len(day) = 1 /\ day[1] \in Digits \ {"0"}
    \/ Len(day) = 2 /\ day[1] = "3" /\ day[2] \in {"0", "1"}
    \/ Len(day) = 2 /\ day[1] \in {"1", "2"} /\ day[2] \in Digits
    \/ Len(day) = 2 /\ day[1] \in {"0", " "} /\ day[2] \in Digits \ {"0"}

DaysInMonth(y, m) ==
    IF m = 2
    THEN (IF y % 4 = 0 /\ (y % 100 # 0 \/ y % 400 = 0) THEN 29 ELSE 28)
    ELSE IF m \in {4, 6, 9, 11} THEN 30
    ELSE 31

NoDate == [ok |-> FALSE, year |-> 0, month |-> 0, day |-> 0]

\* datetime.strptime(date_str, "%Y-%m-%d"): four digits, a hyphen, a month,
\* a hyphen and a day with nothing after it, naming a day that exists;
\* anything else is a ValueError (ok is FALSE).
strptime(s) ==
    IF Len(s) < 8 \/ s[5] # "-" \/ \E k \in 1..4 : s[k] \notin Digits
    THEN NoDate
    ELSE LET dash == IF s[7] = "-" THEN 7 ELSE 8
             m == SubSeq(s, 6, dash - 1)
             day == SubSeq(s, dash + 1, Len(s))
             y == NumberValue(SubSeq(s, 1, 4))
         IN  IF s[dash] = "-" /\ IsMonthText(m) /\ IsDayText(day) /\ y >= 1
                /\ NumberValue(SelectSeq(day, LAMBDA c : c # " "))
                       <= DaysInMonth(y, NumberValue(m))
             THEN [ok |-> TRUE, year |-> y, month |-> NumberValue(m),
                   day |-> NumberValue(SelectSeq(day, LAMBDA c : c # " "))]
             ELSE NoDate

\* parsed_date.strftime("%Y-%m-%d"): %m and %d print two digits; the C
\* library prints %Y unpadded.
strftime(date) ==
    LET TwoDigits(n) == IF n < 10 THEN <<"0">> \o ToDigits(n) ELSE ToDigits(n)
    IN  ToDigits(date.year) \o <<"-">> \o TwoDigits(date.month) \o <<"-">>
            \o TwoDigits(date.day)

\* clean_property_data, lines 171-179: strptime raises TypeError for an
\* argument that is no string, and the handler catches ValueError only.
clean_date(date_str) ==
    IF ~IsTrue(date_str) THEN Returned(<<>>)
    ELSE IF date_str.type # "str" THEN Raised("TypeError")
    ELSE LET parsed_date == strptime(date_str.text)
         IN  IF parsed_date.ok THEN Returned(strftime(parsed_date))
             ELSE Returned(<<>>)

\* urlparse(url), which utils.ensure_full_url calls at line 127, raises
\* ValueError when the host has one of [ and ] without the other.  The host
\* ends where the first token of the path begins.
UrlParseRaises(url) ==
    /\ HasNetloc(url)
    /\ LET PathTokens == {"/", "/made-up", "/huis/1"}
           paths == {k \in 2..Len(url) : url[k] \in PathTokens}
           last == IF paths = {} THEN Len(url)
                   ELSE (CHOOSE k \in paths : \A m \in paths : k <= m) - 1
           netloc == {url[k] : k \in 2..last}
       IN  ("[" \in netloc) # ("]" \in netloc)

\* utils.ensure_full_url, lines 121-131
utils_ensure_full_url(base_url, url) ==
    IF url = <<>> THEN Returned(<<>>)
    ELSE IF UrlParseRaises(url) THEN Raised("ValueError")
    ELSE IF ~HasNetloc(url) THEN Returned(urljoin(base_url, url))
    ELSE Returned(url)

\* clean_property_data, lines 195-198: the required fields a warning is
\* logged for
MissingRequired(cleaned_data) ==
    {field \in {"address", "price", "url"} : cleaned_data[field] = <<>>}

\* The fields of an extracted mapping that clean_property_data reads.
Fields ==
    {"address", "price", "area", "bedrooms", "energy_label", "furnished",
     "including_bills", "status", "available_from", "url"}

\* utils.py, lines 133-200: the cleaned record, or the exception of the
\* first field, in the order of lines 183-192, whose cleaning raises.
clean_property_data(data, base_url) ==
    LET date == clean_date(Get(data["available_from"]))
        url == utils_ensure_full_url(
                   base_url, Strip(Str(GetOrEmpty(data["url"])), Whitespace))
    IN  IF date.raised THEN Raised(date.error)
        ELSE IF url.raised THEN Raised(url.error)
        ELSE Returned(
            [address |-> Strip(Str(GetOrEmpty(data["address"])), Whitespace),
             price |-> clean_price(Get(data["price"])),
             area |-> clean_area(Get(data["area"])),
             bedrooms |-> clean_bedrooms(Get(data["bedrooms"])),
             energy_label |-> clean_energy_label(Get(data["energy_label"])),
             furnished |-> clean_boolean(Get(data["furnished"])),
             including_bills |-> clean_boolean(Get(data["including_bills"])),
             status |-> clean_status(Get(data["status"])),
             available_from |-> date.value,
             url |-> url.value])

\* ----------------------------------------------------- inputs of utils.py

\* How an exception text may begin: three rate-limit texts, the second
\* with a hint that names no seconds, and one text of another error.
WaitLeads ==
    { <<"R", "a", "t", "e", " ", "l", "i", "m", "i", "t", " ", "r", "e", "a",
        "c", "h", "e", "d", ".", " ">>,
      <<"R", "a", "t", "e", "L", "i", "m", "i", "t", "E", "r", "r", "o", "r",
        ":", " ", "t", "r", "y", " ", "a", "g", "a", "i", "n", " ", "i", "n",
        " ", "s", ".", " ">>,
      <<"r", "a", "t", "e", "l", "i", "m", "i", "t", " ", "e", "x", "c", "e",
        "e", "d", "e", "d", ",", " ">>,
      <<"T", "i", "m", "e", "o", "u", "t", ".", " ">> }

\* The seconds a hint names, as written and as a number.
WaitNumbers ==
    { [text |-> <<"7">>, seconds |-> Seconds(7, <<>>)],
      [text |-> <<"1", "2">>, seconds |-> Seconds(12, <<>>)],
      [text |-> <<"1", ".", "5">>, seconds |-> Seconds(1, <<"5">>)],
      [text |-> <<"0", "7", ".", "5", "0">>, seconds |-> Seconds(7, <<"5">>)],
      [text |-> <<"1", ".">>, seconds |-> Seconds(1, <<>>)],
      [text |-> <<"4", "0", ".", "2", "5">>,
       seconds |-> Seconds(40, <<"2", "5">>)] }

\* An exception text with the hint  try again in <seconds>s,  the phrase
\* in lower or in mixed case, the unit in either case.
HintedErrors ==
    { [fn |-> "parse_rate_limit_error",
       text |-> lead \o phrase \o n.text \o unit,
       hinted |-> TRUE, seconds |-> n.seconds] :
      lead \in WaitLeads,
      phrase \in
        { <<"t", "r", "y", " ", "a", "g", "a", "i", "n", " ", "i", "n", " ">>,
          <<"T", "r", "y", " ", "A", "g", "a", "i", "n", " ", "I", "n", " ">> },
      n \in WaitNumbers,
      unit \in {<<"s">>, <<"S">>} }

\* An exception text without the hint: the lead alone, or followed by a
\* phrase that names no seconds, another phrase, or another unit.
UnhintedErrors ==
    { [fn |-> "parse_rate_limit_error", text |-> lead \o end,
       hinted |-> FALSE, seconds |-> Seconds(0, <<>>)] :
      lead \in WaitLeads,
      end \in
        { <<>>,
          <<"t", "r", "y", " ", "a", "g", "a", "i", "n", " ", "l", "a", "t",
            "e", "r">>,
          <<"r", "e", "t", "r", "y", " ", "i", "n", " ", "7", "s">>,
          <<"t", "r", "y", " ", "a", "g", "a", "i", "n", " ", "i", "n", " ",
            "7", " ", "s">>,
          <<"t", "r", "y", " ", "a", "g", "a", "i", "n", " ", "i", "n", " ",
            "2", "m", "3", "0", "s">>,
          <<"t", "r", "y", " ", "a", "g", "a", "i", "n", " ", "i", "n", " ",
            "1", "5">> } }

\* The longest text clean_price, clean_area and clean_bedrooms are called with.
MaxTextLen == 3

\* Those texts: of digits, and of what stands between digits in a price;
\* and two prices as brokers write them, "€1,250 per month" and "n/a".
NumericArgs ==
    { [fn |-> fn, value |-> StrValue(text)] :
      fn \in {"clean_price", "clean_area", "clean_bedrooms"},
      text \in
        UNION {[1..n -> {"0", "1", "2", ",", "€", " "}] : n \in 0..MaxTextLen}
        \cup { <<"€", "1", ",", "2", "5", "0", " ", "p", "e", "r", " ", "m",
                "o", "n", "t", "h">>,
               <<"n", "/", "a">> } }

\* Values a field of an extracted mapping may hold, of every JSON type.
FieldValues ==
    { Missing, Null,
      StrValue(<<>>),
      StrValue(<<"2", "0", "2", "5", "-", "0", "4", "-", "0", "1">>),
      StrValue(<<"2", "0", "2", "5", "-", "4", "-", "1">>),
      StrValue(<<"2", "0", "2", "4", "-", "0", "2", "-", "2", "9">>),
      StrValue(<<"0", "9", "9", "9", "-", "1", "2", "-", "3", "1">>),
      StrValue(<<"2", "0", "2", "5", "-", "0", "2", "-", "2", "9">>),
      StrValue(<<"0", "1", "-", "0", "4", "-", "2", "0", "2", "5">>),
      StrValue(<<"2", "0", "2", "5", "-", "0", "4", "-", "0", "1", " ">>),
      StrValue(<<"s", "o", "o", "n">>),
      StrValue(<<" ", "a", "+", " ">>),
      StrValue(<<"Y", "e", "s">>),
      StrValue(<<"R", "E", "N", "T", "E", "D">>),
      StrValue(<<"€", "1", ",", "2", "5", "0">>),
      IntValue(0), IntValue(1250), IntValue(20250401),
      FloatValue(0, <<"0">>), FloatValue(12, <<"5">>),
      BoolValue(FALSE), BoolValue(TRUE),
      ListValue(<<>>),
      ListValue(<<StrValue(<<"2", "0", "2", "5", "-", "0", "4", "-", "0", "1">>), IntValue(2)>>),
      DictValue(<<>>, <<>>),
      DictValue(<<<<"a">>>>, <<IntValue(5)>>) }

\* An extracted mapping as the extractor is asked to produce it.
PlainData ==
    [address |-> StrValue(<<"K", "a", "d", "e", " ", "1">>),
     price |-> StrValue(<<"1", "2", "5", "0">>),
     area |-> StrValue(<<"8", "0">>),
     bedrooms |-> StrValue(<<"2">>),
     energy_label |-> StrValue(<<"A">>),
     furnished |-> BoolValue(TRUE),
     including_bills |-> BoolValue(FALSE),
     status |-> StrValue(<<"a", "v", "a", "i", "l", "a", "b", "l", "e">>),
     available_from |-> StrValue(<<"2", "0", "2", "5", "-", "0", "4", "-", "0", "1">>),
     url |-> StrValue(<<"https://", "www.example.com", "/huis/1">>)]

\* Extracted mappings: the plain one with any one field holding any value.
DataArgs ==
    LET Changed(field, value) ==
            [fn |-> "clean_property_data",
             data |-> [PlainData EXCEPT ![field] = value],
             field |-> field, base_url |-> <<>>]
        \* texts the url field may hold besides, as sequences of url tokens
        UrlValues ==
            { StrValue(<<"/huis/1">>),
              StrValue(<<" ", "https://", "www.example.com", "/made-up", " ">>),
              StrValue(<<"http://", "[", "::1", "/">>) }
    IN  {Changed(field, value) : field \in Fields, value \in FieldValues}
        \cup {Changed("url", value) : value \in UrlValues}

\* What clean_energy_label is called with: every text of up to MaxTextLen
\* characters of labels in both cases, of a letter that is no label, of the
\* plus sign and of the space; and the values of the other types.
LabelArgs ==
    { [fn |-> "clean_energy_label", value |-> value] :
      value \in
        {StrValue(text) :
           text \in UNION {[1..n -> {"a", "A", "g", "h", "+", " "}] :
                             n \in 0..MaxTextLen}}
        \cup (FieldValues \ {Missing}) }

\* The records save_properties_to_db is called with, one at a time: an
\* extracted mapping of DataArgs, or the plain one with the url that
\* process_listing gives a record (lines 164-168), each with the error flag
\* process_listing stamps or, for content handed back as it is, with none.
SaveArgs ==
    LET Save(data, error, name, listing_url, own) ==
            [fn |-> "save_properties_to_db", data |-> data, error |-> error,
             broker_name |-> name, listing_url |-> listing_url, own |-> own]
        names == {brokers_config[k].name : k \in 1..Len(brokers_config)}
        \* the urls the extractor may put into the object it returns: none,
        \* a full one, a path, and a full one in angle brackets
        OwnUrls ==
            { <<>>, ExtractorUrl, <<"/made-up">>,
              <<"<", "https://", "www.example.com", "/made-up", ">">> }
    IN  {Save(a.data, error, "pararius", "", <<>>) :
           a \in DataArgs, error \in {BoolValue(FALSE), Missing}}
        \cup {Save(PlainData, BoolValue(TRUE), name, "", <<>>) : name \in names}
        \cup {Save([PlainData EXCEPT
                       !.url = StrValue(RecordUrl(
                                   NormalizeDomain(BrokerConfig(
                                       brokers_config[k])).domain,
                                   listing_url, own))],
                    BoolValue(FALSE), brokers_config[k].name, listing_url, own) :
                 k \in 1..Len(brokers_config), listing_url \in ListingUrls,
                 own \in OwnUrls}

\* The urls of the records that are POSTed.
StoredUrls == {"https://www.funda.nl/huis/1", "https://www.funda.nl/huis/2"}

\* The bodies of POST /properties/: cleaned records with the broker's name,
\* two prices and both values of furnished for each url, and a body that
\* lacks the url.
PostBodies ==
    { [address |-> "Kade 1", price |-> price, area |-> "80", bedrooms |-> "2",
       energy_label |-> "A", furnished |-> furnished,
       including_bills |-> "false", status |-> "available",
       available_from |-> "2025-04-01", url |-> url, broker |-> "funda"] :
      price \in {"1250", "1300"}, furnished \in {"true", "false"},
      url \in StoredUrls \cup {""} }

\* -------------------------------------------------------------------- Init

\* Before the first broker run: nothing fetched, extracted or written yet.
Idle ==
    /\ broker = NoBroker
    /\ scraping_result = ScrapingResult("")
    /\ scraping_results = <<>>
    /\ listings_data = <<>>
    /\ i = 0
    /\ listing = NoListing
    /\ linked_page_content = ""
    /\ current_retry = 0
    /\ result = NoResult
    /\ property_data = NoEntry
    /\ properties = <<>>
    /\ snapshot = NoSnapshot
    /\ j = 1
    /\ returned = <<>>
    /\ inflight = {}
    /\ attempt_log = <<>>
    /\ waits = 0
    /\ order = <<>>
    /\ calls = NoCalls
    /\ posts = <<>>
    /\ answers = NoAnswers
    /\ cooldowns = <<>>
    /\ initial_result = NoInitialResult
    /\ detail_fetches = 0
    /\ artifacts = <<>>
    /\ store = <<>>

\* No call of a function of utils.py on its own.
NoCall == [fn |-> "none"]

Init ==
    /\ pc = "main"
    /\ args_broker = "all"
    /\ b = 1
    /\ limit \in 0..MaxLimit
    /\ Idle
    /\ arg = NoCall
    /\ out = NoCall

\* main with one broker named (lines 121-135): get_broker_config finds the
\* broker of that name, and only that broker is run.
BrokerIndex(name) == CHOOSE k \in 1..Len(brokers_config) : brokers_config[k].name = name

InitSingle ==
    /\ pc = "main"
    /\ args_broker \in {brokers_config[k].name : k \in 1..Len(brokers_config)}
    /\ b = BrokerIndex(args_broker)
    /\ limit \in 0..MaxLimit
    /\ Idle
    /\ arg = NoCall
    /\ out = NoCall

\* Variables of main that a broker run leaves alone.
mainVars == <<args_broker, b, limit, scraping_results, cooldowns>>

\* Variables of process_listing.
listingVars ==
    <<linked_page_content, current_retry, result, attempt_log, waits,
      detail_fetches>>

\* Variables of the persisting step.
persistVars == <<snapshot, j, posts, answers>>

\* Variables of scrape set once, by the results page fetch.
pageVars == <<initial_result, listings_data>>

\* The files of the run.
fileVars == <<calls, artifacts>>

\* The call of a function of utils.py on its own.
utilVars == <<arg, out, store>>

\* Everything a broker run reads or writes.
runVars ==
    <<mainVars, broker, scraping_result, pageVars, i, listing,
      linked_page_content, detail_fetches, current_retry, waits, result,
      property_data, properties, persistVars, returned, order, fileVars,
      inflight, attempt_log>>

\* ------------------------------------------------------- crawlai.py: main

\* main, lines 106-113 (or 124-134 with one broker named), and
\* scrape_single_broker, lines 28-36: the next broker's run starts.
StartBroker ==
    /\ pc = "main"
    /\ b <= Len(brokers_config)
    /\ broker' = SubstituteMaxPrice(BrokerConfig(brokers_config[b]))
    /\ scraping_result' = ScrapingResult(brokers_config[b].name)
    /\ pc' = "construct"
    /\ listings_data' = <<>>
    /\ i' = 0
    /\ listing' = NoListing
    /\ linked_page_content' = ""
    /\ current_retry' = 0
    /\ result' = NoResult
    /\ property_data' = NoEntry
    /\ properties' = <<>>
    /\ snapshot' = NoSnapshot
    /\ j' = 1
    /\ returned' = <<>>
    /\ attempt_log' = <<>>
    /\ waits' = 0
    /\ order' = <<>>
    /\ calls' = NoCalls
    /\ posts' = <<>>
    /\ answers' = NoAnswers
    /\ initial_result' = NoInitialResult
    /\ detail_fetches' = 0
    /\ artifacts' = <<>>
    /\ UNCHANGED <<utilVars, mainVars, inflight>>

\* PropertyScraper.__init__, lines 28-53: the domain gets its scheme; making
\* the output directory may raise.
Construct ==
    /\ pc = "construct"
    /\ \E ok \in BOOLEAN :
         IF ok
         THEN /\ broker' = NormalizeDomain(broker)
              /\ pc' = "enter_crawler"
              /\ UNCHANGED scraping_result
         ELSE /\ scraping_result' =
                    [scraping_result EXCEPT !.success = FALSE,
                                            !.error_message = MsgSetupError]
              /\ pc' = "broker_done"
              /\ UNCHANGED broker
    /\ UNCHANGED <<utilVars, mainVars, pageVars, i, listing, listingVars,
                   property_data, properties, persistVars, returned, inflight,
                   order, fileVars>>

\* scrape, line 193: the crawler is entered; a browser that does not start
\* raises out of scrape (scrape_single_broker, lines 57-59).
EnterCrawler ==
    /\ pc = "enter_crawler"
    /\ \E ok \in BOOLEAN :
         IF ok
         THEN /\ pc' = "fetch_main"
              /\ UNCHANGED scraping_result
         ELSE /\ scraping_result' =
                    [scraping_result EXCEPT !.success = FALSE,
                                            !.error_message = MsgSetupError]
              /\ pc' = "broker_done"
    /\ UNCHANGED <<utilVars, mainVars, broker, pageVars, i, listing, listingVars,
                   property_data, properties, persistVars, returned, inflight,
                   order, fileVars>>

\* scrape, line 193: the crawler is left on the way out of scrape; a browser
\* that does not close raises out of scrape (scrape_single_broker, lines
\* 57-59).
ExitCrawler ==
    /\ pc = "scrape_return"
    /\ \E ok \in BOOLEAN :
         IF ok
         THEN /\ pc' = "record_results"
              /\ UNCHANGED scraping_result
         ELSE /\ scraping_result' =
                    [scraping_result EXCEPT !.success = FALSE,
                                            !.error_message = MsgSetupError]
              /\ pc' = "broker_done"
    /\ UNCHANGED <<utilVars, mainVars, broker, pageVars, i, listing, listingVars,
                   property_data, properties, persistVars, returned, inflight,
                   order, fileVars>>

\* scrape_single_broker, lines 45-51 (and 57-59 when len or .get raises on
\* what scrape returned).
ScrapeReturn ==
    /\ pc = "record_results"
    /\ scraping_result' =
         IF \A k \in 1..Len(returned) : returned[k].isdict
         THEN [scraping_result EXCEPT !.success = RunSucceeded(returned),
                                      !.properties_found = Len(returned),
                                      !.properties_saved = SavedCount(returned)]
         ELSE [scraping_result EXCEPT !.success = FALSE,
                                      !.properties_found = Len(returned),
                                      !.error_message = MsgTypeError]
    /\ pc' = "broker_done"
    /\ UNCHANGED <<utilVars, mainVars, broker, pageVars, i, listing, listingVars,
                   property_data, properties, persistVars, returned, inflight,
                   order, fileVars>>

\* main, lines 114-119: the summary is collected; a failed run is followed by
\* the cooldown.  With one broker named (line 135) the report is next.
CollectResult ==
    /\ pc = "broker_done"
    /\ scraping_results' = Append(scraping_results, scraping_result)
    /\ cooldowns' = IF args_broker = "all" /\ CooldownAfter(scraping_result)
                     THEN Append(cooldowns,
                                 [after |-> b, seconds |-> BrokerCooldown])
                     ELSE cooldowns
    /\ b' = IF args_broker = "all" THEN b + 1 ELSE b
    /\ pc' = IF args_broker = "all" THEN "main" ELSE "report"
    /\ UNCHANGED <<utilVars, args_broker, limit, broker, scraping_result, pageVars, i, listing,
                   listingVars, property_data, properties, persistVars,
                   returned, inflight, order, fileVars>>

\* main, lines 137-139: every broker has run; the report is written.
Finish ==
    /\ pc = IF args_broker = "all" THEN "main" ELSE "report"
    /\ args_broker = "all" => b > Len(brokers_config)
    /\ pc' = "exit"
    /\ UNCHANGED <<utilVars, mainVars, broker, scraping_result, pageVars, i, listing,
                   listingVars, property_data, properties, persistVars,
                   returned, inflight, order, fileVars>>

\* ---------------------------------------------- scraper.py: scrape, discovery

\* scrape, lines 213-216: the results page fetch is issued.
IssueInitialFetch ==
    /\ pc = "fetch_main"
    /\ inflight' = CallIssued(inflight, CurrentCall("main"))
    /\ calls' = [calls EXCEPT !.main = @ + 1]
    /\ pc' = "await_main"
    /\ UNCHANGED <<utilVars, artifacts, mainVars, broker, scraping_result, pageVars, i, listing,
                   listingVars, property_data, properties, persistVars,
                   returned, order>>

\* scrape, lines 217-245: the fetch returns or raises.  Only a successful
\* result whose content is a non-empty list reaches the loop; an empty list
\* writes the page body to debug_html_*.html first; content json.loads
\* rejects ends in the handler of lines 289-294.
ReturnInitialFetch ==
    /\ pc = "await_main"
    /\ inflight' = CallReturned(inflight, CurrentCall("main"))
    /\ \E r \in InitialResults :
         LET branch == InitialBranch(r) IN
         /\ initial_result' = r
         /\ listings_data' = IF branch = "process"
                             THEN [k \in 1..r.n |-> k]
                             ELSE <<>>
         /\ calls' = IF branch = "debug_html"
                     THEN [calls EXCEPT !.debug_html = @ + 1]
                     ELSE calls
         /\ pc' = IF branch = "process" THEN "loop" ELSE "scrape_return"
    /\ returned' = <<>>
    /\ UNCHANGED <<utilVars, artifacts, mainVars, broker, scraping_result, i, listing, listingVars,
                   property_data, properties, persistVars, order>>

\* ------------------------------------------------- scraper.py: scrape, the loop

\* scrape, lines 247-264: one iteration begins.  The inter-listing delay is
\* taken, the listing's fields are read, and a listing without html is
\* skipped.  After the last iteration the persisting step follows.
LoopHead ==
    /\ pc = "loop"
    /\ LET todo == ListingsToProcess(listings_data, limit) IN
       IF i < Len(todo)
       THEN \E html \in ListingHtmls, url \in Hrefs :
              LET lid == todo[i + 1]
                  delay == IF DelayBefore(i)
                           THEN <<[ev |-> "delay", id |-> lid]>>
                           ELSE <<>>
              IN
              IF EmptyListingHtml(html)
              THEN /\ order' = order \o delay \o <<[ev |-> "skip", id |-> lid]>>
                   /\ i' = i + 1
                   /\ pc' = "loop"
                   /\ UNCHANGED listing
              ELSE /\ order' = order \o delay \o <<[ev |-> "process", id |-> lid]>>
                   /\ listing' = [id |-> lid, html_content |-> html,
                                  listing_url |-> url]
                   /\ i' = i
                   /\ pc' = "process_listing"
       ELSE /\ pc' = "persist"
            /\ UNCHANGED <<listing, order, i>>
    /\ UNCHANGED <<utilVars, mainVars, broker, scraping_result, pageVars, listingVars,
                   property_data, properties, persistVars, returned, inflight,
                   fileVars>>

\* scrape, lines 264-269: the value process_listing returned is appended.
AppendResult ==
    /\ pc = "listing_done"
    /\ properties' = IF Truthy(property_data)
                     THEN Append(properties, property_data)
                     ELSE properties
    /\ i' = i + 1
    /\ property_data' = NoEntry
    /\ listing' = NoListing
    /\ linked_page_content' = ""
    /\ current_retry' = 0
    /\ result' = NoResult
    /\ attempt_log' = <<>>
    /\ waits' = 0
    /\ detail_fetches' = 0
    /\ pc' = "loop"
    /\ UNCHANGED <<utilVars, mainVars, broker, scraping_result, pageVars, persistVars,
                   returned, inflight, order, fileVars>>

\* ------------------------------------------------ scraper.py: process_listing

\* The href of a listing as the tokens of a url.
HrefTokens(listing_url) ==
    IF listing_url = MalformedHref THEN <<"//", "[", "::1", "/">>
    ELSE <<listing_url>>

\* process_listing, lines 80-87 (and 97-124 when there is no listing_url):
\* a listing_url that is not empty is qualified by ensure_full_url and the
\* detail fetch is issued.  When urlparse rejects the listing_url, the
\* ValueError leaves ensure_full_url (line 21) for the handler of lines
\* 185-187, which returns a failure marker.
BeginListing ==
    /\ pc = "process_listing"
    /\ IF listing.listing_url = ""
       THEN /\ pc' = "retry_loop"
            /\ UNCHANGED <<inflight, detail_fetches, property_data>>
       ELSE IF UrlParseRaises(HrefTokens(listing.listing_url))
       THEN /\ property_data' = From(listing.id, Marker(MsgValueError))
            /\ pc' = "listing_done"
            /\ UNCHANGED <<inflight, detail_fetches>>
       ELSE /\ inflight' = CallIssued(inflight, CurrentCall("detail"))
            /\ detail_fetches' = detail_fetches + 1
            /\ pc' = "await_detail"
            /\ UNCHANGED property_data
    /\ UNCHANGED <<utilVars, mainVars, broker, scraping_result, pageVars, i, listing,
                   linked_page_content, current_retry, result, attempt_log,
                   waits, properties, persistVars, returned, order, fileVars>>

\* process_listing, lines 87-124: the detail fetch returns or raises; either
\* way the extraction follows, with or without the linked page's html.
ReturnDetail ==
    /\ pc = "await_detail"
    /\ inflight' = CallReturned(inflight, CurrentCall("detail"))
    /\ \E o \in DetailOutcomes :
         /\ linked_page_content' = LinkedPageContent(o)
         /\ pc' = AfterDetailFetch(o)
    /\ UNCHANGED <<utilVars, mainVars, broker, scraping_result, pageVars, i, listing,
                   current_retry, result, attempt_log, waits, detail_fetches,
                   property_data, properties, persistVars, returned, order,
                   fileVars>>

\* process_listing, lines 126-133: an extraction call is issued.
IssueExtraction ==
    /\ pc = "retry_loop"
    /\ BelowMaxRetries(current_retry)
    /\ inflight' = CallIssued(inflight, CurrentCall("extract"))
    /\ pc' = "await_extract"
    /\ UNCHANGED <<utilVars, mainVars, broker, scraping_result, pageVars, i, listing,
                   listingVars, property_data, properties, persistVars,
                   returned, order, fileVars>>

\* process_listing, lines 134-187: the extraction call returns or raises.
\* A result leaves the loop (break) and is interpreted (150-184); text that
\* is no JSON is archived to failed_extraction_*.txt.  A rate-limit error
\* below the bound sleeps and loops; at the bound, and for any other error,
\* the exception reaches the outer handler (185-187), which returns the
\* marker with str(e).
ReturnExtraction ==
    /\ pc = "await_extract"
    /\ inflight' = CallReturned(inflight, CurrentCall("extract"))
    /\ \E o \in ExtractionOutcomes :
         /\ attempt_log' = Append(attempt_log, o)
         /\ IF ~o.raised
            THEN /\ result' = o
                 /\ property_data' = From(listing.id, InterpretResult(o))
                 /\ calls' = IF o.success /\ o.content = "text_invalid"
                             THEN [calls EXCEPT !.failed_extraction = @ + 1]
                             ELSE calls
                 /\ artifacts' = IF o.success /\ o.content = "text_invalid"
                                 THEN Append(artifacts,
                                             [id |-> listing.id,
                                              content |-> ArtifactContent(o)])
                                 ELSE artifacts
                 /\ pc' = "listing_done"
                 /\ UNCHANGED <<current_retry, waits>>
            ELSE IF IsRateLimitError(Lower(o.text))
            THEN /\ current_retry' = current_retry + 1
                 /\ IF BelowMaxRetries(current_retry + 1)
                    THEN /\ waits' = waits + 1
                         /\ pc' = "retry_loop"
                         /\ UNCHANGED property_data
                    ELSE /\ property_data' = From(listing.id, Marker(o.text))
                         /\ pc' = "listing_done"
                         /\ UNCHANGED waits
                 /\ UNCHANGED <<result, fileVars>>
            ELSE /\ property_data' = From(listing.id, Marker(o.text))
                 /\ pc' = "listing_done"
                 /\ UNCHANGED <<current_retry, waits, result, fileVars>>
    /\ UNCHANGED <<utilVars, mainVars, broker, scraping_result, pageVars, i, listing,
                   linked_page_content, detail_fetches, properties, persistVars,
                   returned, order>>

\* ------------------------------------------------------ the persisting step

\* scrape, lines 273-287, and save_properties_json: a non-empty batch is
\* written to the snapshot file.  A write that raises ends in the handler of
\* lines 289-294, which returns the empty list.
Persist ==
    /\ pc = "persist"
    /\ IF properties # <<>>
       THEN \E ok \in BOOLEAN :
              IF ok
              THEN /\ snapshot' = [written |-> TRUE,
                                   content |-> SnapshotContent(properties)]
                   /\ calls' = [calls EXCEPT !.snapshot = @ + 1]
                   /\ UNCHANGED artifacts
                   /\ j' = 1
                   /\ pc' = "db_loop"
                   /\ UNCHANGED returned
              ELSE /\ returned' = <<>>
                   /\ pc' = AfterSnapshotError
                   /\ UNCHANGED <<snapshot, fileVars, j>>
       ELSE /\ returned' = properties
            /\ pc' = "scrape_return"
            /\ UNCHANGED <<snapshot, fileVars, j>>
    /\ UNCHANGED <<utilVars, mainVars, broker, scraping_result, pageVars, i, listing,
                   listingVars, property_data, properties, posts, answers,
                   inflight, order>>

\* save_properties_to_db, lines 207-219: the next entry of the batch.  .get
\* on a value that is no mapping raises outside the per-record try, out of
\* save_properties_to_db and into scrape's handler (289-294).  An entry with
\* error set is skipped; a record whose cleaning raises is logged (223-225);
\* any other record is POSTed.
DbLoop ==
    /\ pc = "db_loop"
    /\ IF j > Len(properties)
       THEN /\ returned' = properties
            /\ pc' = "scrape_return"
            /\ UNCHANGED <<j, posts, inflight>>
       ELSE LET prop == properties[j] IN
            IF ~prop.isdict
            THEN /\ returned' = <<>>
                 /\ pc' = "scrape_return"
                 /\ UNCHANGED <<j, posts, inflight>>
            ELSE IF SkippedByDb(prop) \/ CleanRaises(prop)
            THEN /\ j' = j + 1
                 /\ pc' = "db_loop"
                 /\ UNCHANGED <<returned, posts, inflight>>
            ELSE /\ posts' = Append(posts, j)
                 /\ inflight' = CallIssued(inflight, CurrentCall("post"))
                 /\ pc' = "await_post"
                 /\ UNCHANGED <<returned, j>>
    /\ UNCHANGED <<utilVars, mainVars, broker, scraping_result, pageVars, i, listing,
                   listingVars, property_data, properties, snapshot, answers,
                   order, fileVars>>

\* save_properties_to_db, lines 219-225: the POST returns or raises; a
\* non-2xx answer raises in raise_for_status; both are logged and the loop
\* goes on.
ReturnPost ==
    /\ pc = "await_post"
    /\ inflight' = CallReturned(inflight, CurrentCall("post"))
    /\ \E o \in PostOutcomes :
         answers' = IF o = "2xx" THEN [answers EXCEPT !.accepted = @ + 1]
                                 ELSE [answers EXCEPT !.failed = @ + 1]
    /\ j' = j + 1
    /\ pc' = "db_loop"
    /\ UNCHANGED <<utilVars, mainVars, broker, scraping_result, pageVars, i, listing,
                   listingVars, property_data, properties, snapshot, posts,
                   returned, order, fileVars>>

\* ------------------------------------------------- utils.py, called alone

\* process_listing, lines 135-143, for one exception text: a rate-limit
\* error waits for  parse_rate_limit_error(error_str)  seconds.
WaitOnRateLimit ==
    /\ pc = "utils"
    /\ arg.fn = "parse_rate_limit_error"
    /\ LET error_str == Lower(arg.text)
       IN  out' = IF IsRateLimitError(error_str)
                  THEN [fn |-> arg.fn, rate_limited |-> TRUE,
                        wait_time |-> parse_rate_limit_error(error_str)]
                  ELSE [fn |-> arg.fn, rate_limited |-> FALSE,
                        wait_time |-> Seconds(0, <<>>)]
    /\ pc' = "utils_done"
    /\ UNCHANGED <<arg, store, runVars>>

\* clean_property_data, lines 136-141, called with one text
CallCleanPrice ==
    /\ pc = "utils"
    /\ arg.fn = "clean_price"
    /\ out' = [fn |-> arg.fn, result |-> Returned(clean_price(arg.value))]
    /\ pc' = "utils_done"
    /\ UNCHANGED <<arg, store, runVars>>

\* clean_property_data, lines 143-148, called with one text
CallCleanArea ==
    /\ pc = "utils"
    /\ arg.fn = "clean_area"
    /\ out' = [fn |-> arg.fn, result |-> Returned(clean_area(arg.value))]
    /\ pc' = "utils_done"
    /\ UNCHANGED <<arg, store, runVars>>

\* clean_property_data, lines 150-155, called with one text
CallCleanBedrooms ==
    /\ pc = "utils"
    /\ arg.fn = "clean_bedrooms"
    /\ out' = [fn |-> arg.fn, result |-> Returned(clean_bedrooms(arg.value))]
    /\ pc' = "utils_done"
    /\ UNCHANGED <<arg, store, runVars>>

\* utils.py, lines 106-119, called with one value, and called once more
\* with what it returned
CallCleanEnergyLabel ==
    /\ pc = "utils"
    /\ arg.fn = "clean_energy_label"
    /\ LET label == clean_energy_label(arg.value)
       IN  out' = [fn |-> arg.fn, result |-> Returned(label),
                   again |-> Returned(clean_energy_label(StrValue(label)))]
    /\ pc' = "utils_done"
    /\ UNCHANGED <<arg, store, runVars>>

\* utils.py, lines 133-200, called with one extracted mapping
CallCleanPropertyData ==
    /\ pc = "utils"
    /\ arg.fn = "clean_property_data"
    /\ out' = [fn |-> arg.fn,
               result |-> clean_property_data(arg.data, arg.base_url)]
    /\ pc' = "utils_done"
    /\ UNCHANGED <<arg, store, runVars>>

\* A save that rejects a record with a required field missing.
PostUnlessIncomplete(cleaned_prop, name) ==
    IF MissingRequired(cleaned_prop) # {}
    THEN [posted |-> FALSE, body |-> <<>>, warnings |-> MissingRequired(cleaned_prop)]
    ELSE [posted |-> TRUE, body |-> cleaned_prop @@ [broker |-> name],
          warnings |-> {}]

\* save_properties_to_db, lines 216-219: the body of the POST
Post(cleaned_prop, name) ==
    [posted |-> TRUE, body |-> cleaned_prop @@ [broker |-> name],
     warnings |-> MissingRequired(cleaned_prop)]

\* save_properties_to_db, lines 207-225, for one record of the batch: a
\* record with error set is skipped, one whose cleaning raises is logged,
\* any other is cleaned, given the broker's name and POSTed.
SaveToDb ==
    /\ pc = "utils"
    /\ arg.fn = "save_properties_to_db"
    /\ LET cleaned_prop == clean_property_data(arg.data, <<>>)
           none == [posted |-> FALSE, body |-> <<>>, warnings |-> {}]
       IN  out' = [fn |-> arg.fn] @@
                  (IF IsTrue(Get(arg.error)) THEN none
                   ELSE IF cleaned_prop.raised THEN none
                   ELSE Post(cleaned_prop.value, arg.broker_name))
    /\ pc' = "utils_done"
    /\ UNCHANGED <<arg, store, runVars>>

\* ------------------------------------------------- mongo_db.py: the API

\* PropertyBase, lines 22-33: the request body as the handler receives it.
\* url or broker missing ends the request with 422 before the handler runs;
\* the texts true and false of the two flags become booleans.
PropertyBase(body) ==
    IF body.url = "" \/ body.broker = ""
    THEN [ok |-> FALSE, property |-> body]
    ELSE [ok |-> TRUE,
          property |-> [body EXCEPT !.furnished = (@ = "true"),
                                    !.including_bills = (@ = "true")]]

\* PropertyListing.objects(url=url).first(): the position in the store of the
\* newest document with exactly that url (meta ordering -created_at), or 0.
FirstByUrl(docs, url) ==
    LET found == {k \in 1..Len(docs) : docs[k].url = url}
    IN  IF found = {} THEN 0 ELSE CHOOSE k \in found : \A m \in found : k >= m

\* A save that inserts whether or not the url is stored already.
InsertAlways(docs, property) == Append(docs, property)

\* create_property, lines 55-65: the document with the url takes the values
\* of the request, or a new document is inserted.
Upsert(docs, property) ==
    IF FirstByUrl(docs, property.url) # 0
    THEN [docs EXCEPT ![FirstByUrl(docs, property.url)] = property]
    ELSE Append(docs, property)

\* POST /properties/, lines 38-69.  The database answers, or raises and the
\* handler turns the exception into a 400.
create_property ==
    /\ pc = "api"
    /\ \E body \in PostBodies, db \in {"ok", "error"} :
         LET request == PropertyBase(body) IN
         /\ arg' = [fn |-> "create_property", body |-> body]
         /\ IF ~request.ok
            THEN /\ out' = [fn |-> "create_property", status |-> 422]
                 /\ store' = store
            ELSE IF db = "error"
            THEN /\ out' = [fn |-> "create_property", status |-> 400]
                 /\ store' = store
            ELSE /\ out' = [fn |-> "create_property", status |-> 200,
                            body |-> request.property]
                 /\ store' = Upsert(store, request.property)
    /\ UNCHANGED <<pc, runVars>>

\* GET /properties/{property_url}, lines 101-109.  HTTPException is an
\* Exception: the 404 raised at line 106 inside the try is caught at line
\* 108 and raised again as a 400.
get_property ==
    /\ pc = "api"
    /\ \E property_url \in StoredUrls \cup {"https://www.funda.nl/huis/0"} :
         /\ arg' = [fn |-> "get_property", property_url |-> property_url]
         /\ out' = IF FirstByUrl(store, property_url) = 0
                    THEN [fn |-> "get_property", status |-> 400]
                    ELSE [fn |-> "get_property", status |-> 200,
                          body |-> store[FirstByUrl(store, property_url)]]
    /\ UNCHANGED <<store, pc, runVars>>

\* -------------------------------------------------------------- specification

Next ==
    \/ StartBroker
    \/ Construct
    \/ EnterCrawler
    \/ IssueInitialFetch
    \/ ReturnInitialFetch
    \/ LoopHead
    \/ BeginListing
    \/ ReturnDetail
    \/ IssueExtraction
    \/ ReturnExtraction
    \/ AppendResult
    \/ Persist
    \/ DbLoop
    \/ ReturnPost
    \/ ExitCrawler
    \/ ScrapeReturn
    \/ CollectResult
    \/ Finish

Spec == Init /\ [][Next]_vars

\* The run of one named broker, under the assumption that every external
\* call returns: the event loop runs every step that is ready, the return of
\* an awaited call included.
FairSpec == InitSingle /\ [][Next]_vars /\ WF_vars(Next)

InitUtils ==
    /\ pc = "utils"
    /\ args_broker = "all"
    /\ b = 1
    /\ limit = 0
    /\ Idle
    /\ arg \in HintedErrors \cup UnhintedErrors \cup NumericArgs \cup LabelArgs
               \cup DataArgs \cup SaveArgs
    /\ out = NoCall

NextUtils ==
    \/ WaitOnRateLimit
    \/ CallCleanPrice
    \/ CallCleanArea
    \/ CallCleanBedrooms
    \/ CallCleanEnergyLabel
    \/ CallCleanPropertyData
    \/ SaveToDb

\* One call of a function of utils.py, for every argument InitUtils draws.
UtilSpec == InitUtils /\ [][NextUtils]_vars

InitApi ==
    /\ pc = "api"
    /\ args_broker = "all"
    /\ b = 1
    /\ limit = 0
    /\ Idle
    /\ arg = NoCall
    /\ out = NoCall

NextApi ==
    \/ create_property
    \/ get_property

\* The persistence API serving requests one at a time, in any order.
ApiSpec == InitApi /\ [][NextApi]_vars

\* ------------------------------------------------------------------ claims

\* The exception texts that hold 'rate limit' or 'ratelimit' in some case.
RateLimitTexts == {ErrRateLimitSpaced, ErrRateLimitHint}

RateLimitFailure(o) == o.raised /\ o.text \in RateLimitTexts

OtherFailure(o) == o.raised /\ o.text \notin RateLimitTexts

\* C1: in the retry loop of process_listing the extraction is never
\* attempted a fourth time; every attempt but the last failed with a
\* rate-limit error and was followed by exactly one wait; when the first k
\* attempts (k = 0, 1, 2) fail with a rate-limit error and attempt k+1
\* succeeds, there are exactly k+1 attempts and k waits and that attempt's
\* result is the one interpreted; a loop that ends on a rate-limit error has
\* made exactly 3 attempts, and the third error is the one propagated.
\* (Only a listing whose listing_url urlparse rejects ends before the loop.)
C1_RetryLoop ==
    LET n == Len(attempt_log) IN
    /\ n <= 3
    /\ \A m \in 1..(n - 1) : RateLimitFailure(attempt_log[m])
    /\ pc = "retry_loop" => waits = n
    /\ (pc = "listing_done" /\ n = 0) =>
         /\ waits = 0
         /\ UrlParseRaises(HrefTokens(listing.listing_url))
    /\ (pc = "listing_done" /\ n >= 1) =>
         /\ waits = n - 1
         /\ ~attempt_log[n].raised =>
              /\ result = attempt_log[n]
              /\ property_data = From(listing.id, InterpretResult(attempt_log[n]))
         /\ RateLimitFailure(attempt_log[n]) =>
              /\ n = 3
              /\ property_data = From(listing.id, Marker(attempt_log[3].text))

\* C1 witness: two rate-limit failures, then a success at the third attempt.
C1_Witness ==
    /\ pc = "listing_done"
    /\ Len(attempt_log) = 3
    /\ RateLimitFailure(attempt_log[1])
    /\ RateLimitFailure(attempt_log[2])
    /\ ~attempt_log[3].raised
    /\ waits = 2

\* C2: an extraction call that fails with an error that is no rate-limit
\* error is the last attempt for the listing, whatever the attempt counter:
\* no wait follows it (the waits are those of the rate-limit failures before
\* it) and process_listing ends at once with that error.
C2_NoRetryOfOtherErrors ==
    \A m \in 1..Len(attempt_log) :
        OtherFailure(attempt_log[m]) =>
            /\ m = Len(attempt_log)
            /\ pc = "listing_done"
            /\ waits = m - 1
            /\ current_retry = m - 1
            /\ property_data = From(listing.id, Marker(attempt_log[m].text))

\* C2 witness: the third attempt (attempt counter 2) fails with a timeout.
C2_Witness ==
    /\ Len(attempt_log) = 3
    /\ attempt_log[3].raised
    /\ attempt_log[3].text = ErrTimeout
    /\ current_retry = 2

IsDelay(e) == e.ev = "delay"

IsIteration(e) == e.ev # "delay"

IsSkip(e) == e.ev = "skip"

IsProcess(e) == e.ev = "process"

\* The loop of scrape has ended.
LoopOver ==
    pc \in {"persist", "db_loop", "await_post", "scrape_return",
            "record_results", "broker_done"}

\* The listings handed to process_listing so far, in processing order.
Handed == SelectSeq(order, IsProcess)

\* An entry with error = true.
IsFailureMarker(e) == e.stamped /\ e.error

C5_OneInFlight ==
    /\ Cardinality(inflight) <= 1
    /\ \A c \in inflight :
         /\ c.broker = Len(scraping_results) + 1
         /\ c.call \in {"detail", "extract"} =>
              /\ c.listing >= 1
              /\ Len(properties) + Len(SelectSeq(order, IsSkip)) = c.listing - 1

\* C5 witness: the extraction call of the second broker's second listing is
\* outstanding.
C5_Witness ==
    \E c \in inflight : c.broker = 2 /\ c.listing = 2 /\ c.call = "extract"

\* C6: a call of scrape fetches the results page exactly once; when that
\* fetch raises or returns a result without success, whatever its error
\* text, scrape returns the empty list at once: no second fetch, no listing
\* iteration (so no detail fetch and no extraction call), no snapshot write
\* and no POST.
C6_PageFetchNotRetried ==
    /\ calls.main <= 1
    /\ pc = "scrape_return" => calls.main = 1
    /\ (initial_result # NoInitialResult
        /\ (initial_result.raised \/ ~initial_result.success)) =>
         /\ pc \in {"scrape_return", "record_results", "broker_done", "main",
                    "exit"}
         /\ calls.main = 1
         /\ returned = <<>>
         /\ order = <<>>
         /\ properties = <<>>
         /\ detail_fetches = 0
         /\ attempt_log = <<>>
         /\ ~snapshot.written
         /\ calls.snapshot = 0
         /\ posts = <<>>
         /\ inflight = {}

\* C6 witness: the fetch raised with a rate-limit text and scrape has
\* returned.
C6_Witness ==
    /\ pc = "scrape_return"
    /\ initial_result.raised
    /\ initial_result.text = ErrRateLimitSpaced

\* C3: when scrape returns, the list it returns holds one entry per listing
\* handed to process_listing, in processing order, whatever failed while a
\* listing was processed.  (The snapshot write, which is no listing's
\* failure, is taken not to raise.)
C3_OneEntryPerListing ==
    (pc = "scrape_return" /\ (properties = <<>> \/ snapshot.written)) =>
        /\ Len(returned) = Len(Handed)
        /\ \A k \in 1..Len(returned) : returned[k].id = Handed[k].id

\* C7: when the results page was fetched with success and discovery yields
\* no listing (no extracted content, or an empty list), the page body has
\* been written to the debug artifact by the time scrape returns.
C7_DebugArtifactWhenNoListing ==
    (/\ pc = "scrape_return"
     /\ initial_result # NoInitialResult
     /\ ~initial_result.raised
     /\ initial_result.success
     /\ \/ initial_result.content = "none"
        \/ initial_result.content = "list" /\ initial_result.n = 0)
    => calls.debug_html = 1

\* C8: the snapshot file holds no entry with error = true.
C8_SnapshotHoldsNoMarker ==
    snapshot.written =>
        \A k \in 1..Len(snapshot.content) : ~IsFailureMarker(snapshot.content[k])

\* C9: when save_properties_to_db has gone through a batch (of mappings), it
\* has issued exactly one POST for every entry without error = true, in batch
\* order, and none for the others.
C9_OnePostPerRecord ==
    (/\ pc = "scrape_return"
     /\ snapshot.written
     /\ \A k \in 1..Len(properties) : properties[k].isdict)
    => posts = SelectSeq([k \in 1..Len(properties) |-> k],
                         LAMBDA k : ~IsFailureMarker(properties[k]))

\* C10: what process_listing returns is a failure marker (error = true and a
\* message) or a record stamped error = false.
C10_MarkerOrStampedRecord ==
    pc = "listing_done" =>
        /\ property_data.isdict
        /\ property_data.stamped
        /\ property_data.error => property_data.message # NoText

\* The extraction result interpreted for the listing, once there is one.
Interpreted == pc = "listing_done" /\ result # NoResult /\ result.success

\* C11 as stated: whenever the extraction content parses to a non-empty JSON
\* array, process_listing returns the array's first element stamped
\* error = false; for an empty array it returns the marker with message
\* "LLM returned empty list".
C11_ArrayFirstElement ==
    Interpreted =>
        /\ result.content \in {"text_array", "text_array_other"} =>
              /\ property_data.stamped
              /\ ~property_data.error
        /\ result.content = "text_empty_array" =>
              property_data = From(listing.id, Marker(MsgEmptyList))

\* C11 amended: a non-empty array whose first element is an object yields
\* that object stamped error = false (later elements are dropped); a
\* non-empty array whose first element is no object yields a failure marker
\* with the TypeError's text; an empty array yields the marker with message
\* "LLM returned empty list"; process_listing returns in each case.
C11_ArrayFirstObject ==
    Interpreted =>
        /\ result.content = "text_array" =>
              property_data =
                  From(listing.id,
                       Record(result.date,
                              RecordUrl(broker.domain, listing.listing_url,
                                        result.url)))
        /\ result.content = "text_array_other" =>
              property_data = From(listing.id, Marker(MsgTypeError))
        /\ result.content = "text_empty_array" =>
              property_data = From(listing.id, Marker(MsgEmptyList))

\* C11 witness: an array of two objects was returned and the first one is
\* the record.
C11_Witness ==
    /\ Interpreted
    /\ result.content = "text_array"
    /\ result.second = "number"
    /\ property_data.date = "iso"

\* C12: when the extraction succeeds with text that is no JSON, process_listing
\* returns the marker with message "JSON parsing error", having written the
\* raw extraction text to a debug artifact; artifacts are written for such
\* listings only, and no such listing's entry is POSTed.
C12_JsonErrorArtifact ==
    /\ (Interpreted /\ result.content = "text_invalid") =>
          /\ property_data = From(listing.id, Marker(MsgJsonError))
          /\ artifacts # <<>>
          /\ artifacts[Len(artifacts)] =
                [id |-> listing.id, content |-> result.content]
    /\ Len(artifacts) =
          Cardinality({k \in 1..Len(properties) :
                          properties[k].message = MsgJsonError})
          + (IF Interpreted /\ result.content = "text_invalid" THEN 1 ELSE 0)
    /\ \A k \in 1..Len(posts) : properties[posts[k]].message # MsgJsonError

\* C12 witness: the second listing's extraction returned text that is no
\* JSON, after a first listing that gave a record.
C12_Witness ==
    /\ Interpreted
    /\ result.content = "text_invalid"
    /\ Len(properties) = 1
    /\ ~properties[1].error

\* The url derived from the listing's discovered listing_url: qualified
\* against the broker's domain, which carries its scheme.
DiscoveredUrl == broker.domain \o <<listing.listing_url>>

\* The extraction parsed to an object (or to an array whose first element
\* is one).
ParsedToObject ==
    Interpreted /\ result.content \in {"text_object", "text_array"}

\* C13: when the extraction parses and the listing has a discovered
\* listing_url, the record's url is the discovered url qualified against
\* the broker's domain, whatever url the extractor returned; the
\* extractor's url is the record's url only when listing_url is empty.
C13_DiscoveredUrlWins ==
    ParsedToObject =>
        /\ listing.listing_url # "" =>
              /\ property_data.url = DiscoveredUrl
              /\ property_data.url[1] \in {"http://", "https://"}
              /\ property_data.url # result.url
        /\ listing.listing_url = "" => property_data.url = result.url

\* C13 witness: the second broker's extractor returned a url of its own for
\* a listing that has a discovered listing_url.
C13_Witness ==
    /\ ParsedToObject
    /\ b = 2
    /\ listing.listing_url # ""
    /\ result.url = ExtractorUrl

\* The detail fetch of the listing was issued and brought no page.
DetailFetchFailed ==
    /\ pc \in {"retry_loop", "await_extract", "listing_done"}
    /\ detail_fetches = 1
    /\ linked_page_content = ""

\* C14: a detail fetch that raises or returns without success does not end
\* the listing: once the fetch was issued, process_listing returns only after
\* an extraction call was made, and every extraction call is given the
\* listing fragment together with the linked page's html, which is empty
\* after a failed detail fetch.
C14_DetailFailureDegrades ==
    /\ (pc = "listing_done" /\ detail_fetches = 1) => attempt_log # <<>>
    /\ (pc = "listing_done" /\ attempt_log = <<>>) =>
          UrlParseRaises(HrefTokens(listing.listing_url))
    /\ pc \in {"retry_loop", "await_extract", "listing_done"} =>
          /\ listing.html_content # ""
          /\ linked_page_content # "" => detail_fetches = 1
    /\ \A c \in inflight :
          c.call = "extract" =>
              /\ c.content = <<listing.html_content, linked_page_content>>
              /\ DetailFetchFailed => c.content = <<listing.html_content, "">>

\* C14 witness: the extraction call is outstanding after a failed detail
\* fetch.
C14_Witness ==
    /\ DetailFetchFailed
    /\ \E c \in inflight : c.call = "extract"

\* The brokers whose summaries main holds and whose run failed.
FailedRuns == {k \in 1..Len(scraping_results) : ~scraping_results[k].success}

\* C15: the brokers are run one after the other in configuration order, each
\* one once, whatever the outcome of the runs before; by the time the next
\* broker starts, a cooldown of 30 seconds has been taken after exactly the
\* runs that ended with success = false.
C15_BrokersInOrderWithCooldown ==
    /\ Len(scraping_results) <= Len(brokers_config)
    /\ \A k \in 1..Len(scraping_results) :
          scraping_results[k].broker_name = brokers_config[k].name
    /\ pc \notin {"main", "exit"} =>
          /\ b = Len(scraping_results) + 1
          /\ scraping_result.broker_name = brokers_config[b].name
    /\ pc = "main" => b = Len(scraping_results) + 1
    /\ pc = "exit" => Len(scraping_results) = Len(brokers_config)
    /\ Len(cooldowns) = Cardinality(FailedRuns)
    /\ \A k \in 1..Len(cooldowns) :
          /\ cooldowns[k].after \in FailedRuns
          /\ cooldowns[k].seconds = 30
          /\ \A m \in 1..(k - 1) : cooldowns[m].after < cooldowns[k].after

\* C15 witness: the first broker's run failed, the cooldown was taken, and
\* the second broker's run has succeeded.
C15_Witness ==
    /\ pc = "exit"
    /\ ~scraping_results[1].success
    /\ scraping_results[2].success
    /\ Len(cooldowns) = 1

\* C16: a run whose scrape call returns is summarised with success = true and
\* the counts of what scrape returned (also when the page fetch failed, no
\* listing was discovered or every listing failed); a run is summarised with
\* success = false, an error message and both counts 0 exactly when an
\* exception left the scraper's construction or its scrape call.
C16_SuccessUnlessException ==
    [][
        /\ (pc = "record_results" /\ pc' = "broker_done") =>
             /\ scraping_result'.success
             /\ scraping_result'.error_message = NoText
             /\ scraping_result'.properties_found = Len(returned)
             /\ scraping_result'.properties_saved <= Len(returned)
        /\ (pc \in {"construct", "enter_crawler", "scrape_return"}
             /\ pc' = "broker_done") =>
             /\ ~scraping_result'.success
             /\ scraping_result'.error_message # NoText
             /\ scraping_result'.properties_found = 0
             /\ scraping_result'.properties_saved = 0
        /\ (pc # "broker_done" /\ pc' = "broker_done") =>
             pc \in {"construct", "enter_crawler", "scrape_return",
                     "record_results"}
        /\ pc = "broker_done" => UNCHANGED scraping_result
      ]_vars

\* C16 witness: every listing of the run failed and the summary has
\* success = true.
C16_Witness ==
    /\ pc = "broker_done"
    /\ scraping_result.success
    /\ scraping_result.properties_found = 2
    /\ scraping_result.properties_saved = 0

\* Extraction calls and rate-limit waits belong to the listing being
\* processed: there are none outside the processing of a handed listing.
AttemptsBelongToListing ==
    (attempt_log # <<>> \/ waits > 0 \/ (\E c \in inflight : c.call = "extract")) =>
        /\ pc \in {"retry_loop", "await_extract", "listing_done"}
        /\ Handed # <<>>
        /\ Handed[Len(Handed)].id = listing.id

\* C17: when every external call returns, a broker run that has started
\* reaches its end, also when every extraction call fails with a rate-limit
\* error; at most min(N, L) listings are handed to process_listing, and each
\* of them takes at most 3 extraction calls and at most 2 rate-limit waits,
\* so that a run makes at most 3 * min(N, L) calls and 2 * min(N, L) waits.
\* (The summary of a run is collected only at the run's end, so a program
\* that exits holding the summary has seen the run end.)
C17_RunTerminates ==
    /\ [](/\ Len(Handed) <= Min(Len(listings_data), limit)
          /\ Len(attempt_log) + Cardinality({c \in inflight : c.call = "extract"}) <= 3
          /\ waits <= 2
          /\ AttemptsBelongToListing)
    /\ [][Len(scraping_results') > Len(scraping_results) => pc = "broker_done"]_vars
    /\ <>(pc = "exit" /\ Len(scraping_results) = 1)

\* C17 witness: a run has ended in which each of two listings used up its
\* three extraction calls on rate-limit errors.
C17_Witness ==
    /\ pc = "broker_done"
    /\ Len(returned) = 2
    /\ \A k \in 1..2 : returned[k].message = ErrRateLimitHint

\* C18: on a rate-limited failure the wait before the next attempt is the
\* number of seconds the error text gives in  try again in <seconds>s
\* (in any letter case) when the text has that hint, and exactly 30 seconds
\* when it has not.
C18_WaitFromHint ==
    (pc = "utils_done" /\ out.fn = "parse_rate_limit_error"
     /\ out.rate_limited)
    => out.wait_time = IF arg.hinted THEN arg.seconds ELSE Seconds(30, <<>>)

\* C18 witness: a rate-limit error whose hint is written in mixed case, after
\* an earlier hint without seconds, has been waited on for 1.5 seconds.
C18_Witness ==
    /\ pc = "utils_done"
    /\ out.fn = "parse_rate_limit_error"
    /\ out.rate_limited
    /\ arg.hinted
    /\ Contains(arg.text, <<"i", "n", " ", "s", ".", " ", "T", "r", "y">>)
    /\ Contains(arg.text, <<"I", "n", " ", "1", ".", "5", "S">>)
    /\ out.wait_time = Seconds(1, <<"5">>)

\* C19 (as stated; the code violates it): clean_property_data returns a
\* record and never raises, whatever each field of the extracted mapping
\* holds, and an available_from value that is no YYYY-MM-DD text yields the
\* empty text.
C19_NormalizationTotal ==
    (pc = "utils_done" /\ out.fn = "clean_property_data")
    => /\ ~out.result.raised
       /\ LET given == Get(arg.data["available_from"])
          IN  (given.type # "str" \/ ~strptime(given.text).ok)
              => out.result.value.available_from = <<>>

\* C20: for every text, clean_price, clean_area and clean_bedrooms return
\* the first run of digits of the text, as long as it can be, when the text
\* has a digit, and the empty text when it has none; the result holds
\* digits only.
C20_FirstDigitRun ==
    (pc = "utils_done"
     /\ out.fn \in {"clean_price", "clean_area", "clean_bedrooms"})
    => LET text == arg.value.text
           value == out.result.value
           digits == {k \in 1..Len(text) : text[k] \in Digits}
       IN  /\ ~out.result.raised
           /\ \A k \in 1..Len(value) : value[k] \in Digits
           /\ digits = {} => value = <<>>
           /\ digits # {} =>
                \E first \in digits, last \in digits :
                    /\ \A k \in digits : first <= k
                    /\ \A k \in first..last : k \in digits
                    /\ last + 1 \notin digits
                    /\ value = SubSeq(text, first, last)

\* C20 witness: clean_area has returned the first digit of a text in which
\* a separator and another digit follow it.
C20_Witness ==
    /\ pc = "utils_done"
    /\ out.fn = "clean_area"
    /\ arg.value.text = <<"1", ",", "2">>
    /\ out.result.value = <<"1">>

\* C21 (as stated; the code violates it): a price written with a thousands
\* separator normalizes to the digits of the whole amount;
\* clean_price("€1,250 per month") returns "1250".
C21_ThousandsSeparator ==
    (pc = "utils_done" /\ out.fn = "clean_price"
     /\ arg.value.text = <<"€", "1", ",", "2", "5", "0", " ", "p", "e", "r",
                           " ", "m", "o", "n", "t", "h">>)
    => out.result.value = <<"1", "2", "5", "0">>

\* The labels C22 names.
C22_Labels ==
    { <<"A", "+", "+">>, <<"A", "+">>, <<"A">>, <<"B">>, <<"C">>, <<"D">>,
      <<"E">>, <<"F">>, <<"G">> }

\* The label of C22_Labels that a text spells in some letter case, between
\* spaces; <<>> when it spells none.
C22_Spelled(text) ==
    LET trimmed == Strip(text, Whitespace)
        spelled == {l \in C22_Labels :
                      /\ Len(l) = Len(trimmed)
                      /\ \A k \in 1..Len(l) :
                           \/ trimmed[k] = l[k]
                           \/ Lower(<<l[k]>>) = <<trimmed[k]>>}
    IN  IF spelled = {} THEN <<>> ELSE CHOOSE l \in spelled : TRUE

\* C22: clean_energy_label is total and idempotent: for every input its
\* result is one of A++, A+, A..G or the empty text; a valid label in any
\* letter case and between spaces comes back in upper case and trimmed,
\* anything else gives the empty text; and cleaning the result once more
\* gives the result.
C22_EnergyLabelIdempotent ==
    (pc = "utils_done" /\ out.fn = "clean_energy_label")
    => /\ ~out.result.raised
       /\ out.result.value \in C22_Labels \cup {<<>>}
       /\ out.result.value =
            IF arg.value.type = "str" THEN C22_Spelled(arg.value.text)
            ELSE <<>>
       /\ out.again = out.result

\* C22 witness: the label a+ with a space before it has come back as A+, and
\* cleaning A+ has given A+ again.
C22_Witness ==
    /\ pc = "utils_done"
    /\ out.fn = "clean_energy_label"
    /\ arg.value = StrValue(<<" ", "a", "+">>)
    /\ out.result.value = <<"A", "+">>
    /\ out.again.value = <<"A", "+">>

\* A text of digits only.
DigitsOnly(text) == \A k \in 1..Len(text) : text[k] \in Digits

\* A text of the form YYYY-MM-DD.
IsoDateForm(text) ==
    /\ Len(text) = 10
    /\ \A k \in {1, 2, 3, 4, 6, 7, 9, 10} : text[k] \in Digits
    /\ text[5] = "-" /\ text[8] = "-"

\* C23 (as stated; the code violates it): every body POSTed to the
\* persistence API satisfies the canonical schema, whatever the extractor
\* returned: price, area and bedrooms are digits only or empty, energy_label
\* is a label or empty, status is available, rented or option,
\* available_from is a YYYY-MM-DD date or empty, furnished and
\* including_bills are true or false, and broker is the name of the broker
\* being run.
C23_PostedBodySchema ==
    (pc = "utils_done" /\ out.fn = "save_properties_to_db" /\ out.posted)
    => /\ DigitsOnly(out.body.price)
       /\ DigitsOnly(out.body.area)
       /\ DigitsOnly(out.body.bedrooms)
       /\ out.body.energy_label \in C22_Labels \cup {<<>>}
       /\ out.body.status \in
            { <<"a", "v", "a", "i", "l", "a", "b", "l", "e">>,
              <<"r", "e", "n", "t", "e", "d">>,
              <<"o", "p", "t", "i", "o", "n">> }
       /\ out.body.available_from = <<>> \/ IsoDateForm(out.body.available_from)
       /\ out.body.furnished
            \in {<<"t", "r", "u", "e">>, <<"f", "a", "l", "s", "e">>}
       /\ out.body.including_bills
            \in {<<"t", "r", "u", "e">>, <<"f", "a", "l", "s", "e">>}
       /\ out.body.broker = arg.broker_name

\* C24 (as stated; the code violates it): every record forwarded to
\* persistence with a non-empty url has a url with scheme and host that is
\* free of markdown-link wrapping, angle brackets and surrounding quotes,
\* whether the url came from the discovered listing_url or, the listing_url
\* being empty, from the extractor.
C24_ForwardedUrlQualified ==
    (pc = "utils_done" /\ out.fn = "save_properties_to_db" /\ out.posted
     /\ out.body.url # <<>>)
    => /\ HasNetloc(out.body.url)
       /\ MarkdownMatches(out.body.url) = {}
       /\ \A k \in 1..Len(out.body.url) : out.body.url[k] \notin AngleBrackets
       /\ out.body.url[1] \notin Quotes
       /\ out.body.url[Len(out.body.url)] \notin Quotes

\* C25: a non-error record whose address, price or url is empty after
\* normalization is not rejected: it is POSTed like a complete record, with
\* the cleaned fields and the broker's name as its body, and a warning is
\* logged for each of the three fields that is empty.
C25_IncompleteStillPosted ==
    (pc = "utils_done" /\ out.fn = "save_properties_to_db"
     /\ ~IsTrue(Get(arg.error))
     /\ ~clean_property_data(arg.data, <<>>).raised)
    => LET cleaned == clean_property_data(arg.data, <<>>).value
       IN  /\ out.posted
           /\ \A field \in Fields : out.body[field] = cleaned[field]
           /\ out.body.broker = arg.broker_name
           /\ out.warnings =
                {field \in {"address", "price", "url"} : cleaned[field] = <<>>}

\* C25 witness: a record without an error flag whose price holds no digit
\* has been POSTed with an empty price, and the warning names the price.
C25_Witness ==
    /\ pc = "utils_done"
    /\ out.fn = "save_properties_to_db"
    /\ arg.data.price = StrValue(<<"s", "o", "o", "n">>)
    /\ out.posted
    /\ out.body.price = <<>>
    /\ out.warnings = {"price"}

\* The documents of the store with a url.
WithUrl(docs, url) == SelectSeq(docs, LAMBDA d : d.url = url)

\* C26: after any sequence of POST /properties/ requests the store holds at
\* most one record per url; a successful POST leaves the record of its url
\* with the field values of its body and every other record as it was, and
\* no other request changes the store: POSTing a url twice updates the
\* record and never inserts a second one.
C26_UpsertByUrl ==
    /\ [](\A url \in StoredUrls : Len(WithUrl(store, url)) <= 1)
    /\ [][
          IF arg'.fn = "create_property" /\ out'.status = 200
          THEN /\ WithUrl(store', arg'.body.url) = <<PropertyBase(arg'.body).property>>
               /\ \A url \in StoredUrls \ {arg'.body.url} :
                      WithUrl(store', url) = WithUrl(store, url)
          ELSE store' = store
         ]_vars

\* C26 witness: a url that was stored with the price 1250 has been POSTed
\* again with the price 1300 and the store holds the one record, with 1300,
\* beside the record of another url.
C26_Witness ==
    /\ pc = "api"
    /\ arg.fn = "create_property"
    /\ out.status = 200
    /\ arg.body.price = "1300"
    /\ Len(store) = 2
    /\ store[1].url = arg.body.url
    /\ store[1].price = "1300"

\* C27 (as stated; the code violates it): GET /properties/{url} answers
\* with status 404 when no stored record has exactly that url, and with the
\* stored record when one exists.
C27_GetByUrl ==
    (pc = "api" /\ arg.fn = "get_property")
    => IF WithUrl(store, arg.property_url) = <<>>
       THEN out.status = 404
       ELSE out.status = 200 /\ out.body = WithUrl(store, arg.property_url)[1]

\* C28 (as stated; the code violates it): a broker run leaves the caller's
\* BrokerConfig unchanged: when scrape_single_broker has ended, name, domain
\* and url_template have the values the object was constructed with.
C28_ConfigUnchanged ==
    pc = "broker_done" => broker = BrokerConfig(brokers_config[b])

\* C29: a listing whose html_content is empty is skipped: no listing with
\* empty html is handed to process_listing, and a skipped listing gets no
\* detail fetch, no extraction call and no entry in properties.  The skipped
\* iteration still counts against the limit, and the inter-listing delay
\* before it is taken whenever it is not the first iteration.
C29_EmptyListingSkipped ==
    /\ [](/\ listing # NoListing => listing.html_content # ""
          /\ Len(SelectSeq(order, IsIteration)) <= limit
          /\ \A p \in 1..Len(order) :
               IsSkip(order[p]) =>
                  /\ \A k \in 1..Len(properties) : properties[k].id # order[p].id
                  /\ property_data.id # order[p].id
                  /\ listing.id # order[p].id
                  /\ \A c \in inflight :
                       c.call \in {"detail", "extract"} =>
                          listings_data[c.listing] # order[p].id)
    /\ [][
          (Len(order') > Len(order) /\ IsSkip(order'[Len(order')])) =>
             LET lid == listings_data[i + 1] IN
             /\ order' = order
                         \o (IF i > 0 THEN <<[ev |-> "delay", id |-> lid]>>
                                      ELSE <<>>)
                         \o <<[ev |-> "skip", id |-> lid]>>
             /\ i' = i + 1
             /\ i' <= limit
             /\ UNCHANGED <<properties, property_data, inflight,
                            detail_fetches, attempt_log, waits>>
         ]_vars

\* C29 witness: with three listings and a limit of 2 the first listing was
\* processed and the second, after its delay, skipped; the loop is over and
\* the third listing was never reached.
C29_Witness ==
    /\ pc = "persist"
    /\ Len(listings_data) = 3
    /\ limit = 2
    /\ order = <<[ev |-> "process", id |-> 1], [ev |-> "delay", id |-> 2],
                 [ev |-> "skip", id |-> 2]>>
    /\ Len(properties) = 1

\* C30: in every run summary properties_saved <= properties_found.  When
\* scrape has returned, properties_found is the number of entries it
\* returned, failure markers included, and properties_saved the number of
\* those entries that do not have error = true, whatever the POSTs of the
\* records answered; a run that ended in an exception has both counts 0.
C30_SavedAtMostFound ==
    /\ [](/\ scraping_result.properties_saved <= scraping_result.properties_found
          /\ \A k \in 1..Len(scraping_results) :
               scraping_results[k].properties_saved
                  <= scraping_results[k].properties_found)
    /\ [][
          (pc # "broker_done" /\ pc' = "broker_done") =>
             IF pc = "record_results"
             THEN /\ scraping_result'.properties_found = Len(returned)
                  /\ scraping_result'.properties_saved =
                       Len(returned)
                       - Cardinality({k \in 1..Len(returned) :
                                        returned[k].stamped /\ returned[k].error})
                  /\ answers' = answers
             ELSE /\ scraping_result'.properties_found = 0
                  /\ scraping_result'.properties_saved = 0
         ]_vars

\* C30 witness: scrape returned a failure marker and a record whose POST the
\* API refused; the summary counts two found and one saved.
C30_Witness ==
    /\ pc = "broker_done"
    /\ Len(returned) = 2
    /\ returned[1].stamped /\ returned[1].error
    /\ ~returned[2].error
    /\ answers = [accepted |-> 0, failed |-> 1]
    /\ scraping_result.properties_found = 2
    /\ scraping_result.properties_saved = 1

\* The snapshot write of the run raised: scrape is over with a batch that
\* was never written.
SnapshotRaised ==
    /\ pc \in {"scrape_return", "record_results", "broker_done"}
    /\ properties # <<>>
    /\ ~snapshot.written

\* C31: the snapshot is written before any record is POSTed, and a POST is
\* made only with the batch written.  When writing the snapshot raises, no
\* record of the run is POSTed and scrape returns the empty list although
\* listings were extracted: the run is summarised with success = true and
\* properties_found = 0.
C31_SnapshotBeforePosts ==
    /\ []((posts # <<>> \/ answers # NoAnswers \/ pc \in {"db_loop", "await_post"}
           \/ (\E c \in inflight : c.call = "post")) =>
             /\ snapshot.written
             /\ snapshot.content = properties
             /\ calls.snapshot = 1)
    /\ [](SnapshotRaised =>
             /\ returned = <<>>
             /\ posts = <<>>
             /\ answers = NoAnswers
             /\ calls.snapshot = 0
             /\ \A c \in inflight : c.call # "post")
    /\ [][
          (pc = "persist" /\ properties # <<>> /\ ~snapshot'.written) =>
             (pc' = "scrape_return" /\ returned' = <<>> /\ posts' = <<>>)
         ]_vars
    /\ [][
          (SnapshotRaised /\ pc = "record_results") =>
             /\ pc' = "broker_done"
             /\ scraping_result'.success
             /\ scraping_result'.properties_found = 0
             /\ scraping_result'.properties_saved = 0
         ]_vars

\* C31 witness: two listings were extracted, the snapshot write raised, and
\* the run is summarised as a success that found nothing.
C31_Witness ==
    /\ pc = "broker_done"
    /\ Len(properties) = 2
    /\ \A k \in 1..2 : ~properties[k].error
    /\ ~snapshot.written
    /\ posts = <<>>
    /\ scraping_result.success
    /\ scraping_result.properties_found = 0

\* C32 (as stated; the code violates it): a detail fetch is issued for a
\* listing exactly when its discovered listing_url is not empty, whatever the
\* broker's fetch_detail_pages flag; it is issued at most once per listing
\* and never again, whatever it returned.
C32_DetailFetchIffUrl ==
    /\ detail_fetches <= 1
    /\ Cardinality({c \in inflight : c.call = "detail"}) <= 1
    /\ pc \in {"await_detail", "retry_loop", "await_extract", "listing_done"} =>
          (detail_fetches = 1 <=> listing.listing_url # "")

====
